---- MODULE Spec2Model ----
(***************************************************************************)
(* A model of the online-school server: the relational store (one sequence *)
(* of rows per table, a row's serial id being its index), the handlers     *)
(* that write it, and the dashboard statistics aggregator that reads it.   *)
(* Rows carry the columns the modelled handlers read or write; free-text   *)
(* columns no handler inspects (descriptions, submission_data, amounts)    *)
(* are left out.                                                           *)
(***************************************************************************)
EXTENDS Integers, Sequences, FiniteSets, TLC

VARIABLES
    users,          \* usersTable
    courses,        \* coursesTable
    lessons,        \* lessonsTable
    enrollments,    \* courseEnrollmentsTable
    subscriptions,  \* subscriptionsTable
    assignments,    \* assignmentsTable
    submissions,    \* assignmentSubmissionsTable
    progress,       \* studentProgressTable
    lessonContent,  \* lessonContentTable
    tests,          \* testsTable
    testQuestions,  \* testQuestionsTable
    now,            \* the wall clock read by new Date() / defaultNow()
    call,           \* the most recent handler call: its name, input and return value
    run,            \* the getDashboardStats call in flight between two of its queries
    spent,          \* history: per (student, lesson), the accepted updateStudentProgress
                    \* calls counted and their timeSpent arguments summed
    updates,        \* history: the accepted update calls counted
    inflight        \* the submitAssignment and updateStudentProgress calls that run
                    \* statement by statement: for each, its input, the statement it
                    \* is at and what it has read

tables == <<users, courses, lessons, enrollments, subscriptions, assignments, submissions>>
content == <<lessonContent, tests, testQuestions>>
vars ==
    <<users, courses, lessons, enrollments, subscriptions, assignments, submissions, progress,
      lessonContent, tests, testQuestions, now, call, run, spent, updates,
      inflight>>

(***************************************************************************)
(* Bounds of the model.                                                    *)
(***************************************************************************)
\* rows the handlers may add to the seeded store of Spec
MaxNewRows == 2
\* submissions the handlers may add to the seeded store of SpecFeed
MaxNewSubmissions == 3
\* clock ticks of SpecFeed after its seed
MaxFeedTicks == 1
\* rows the handlers may add to the seeded store of SpecSteps
MaxStepWrites == 2
\* the last instant of the clock in SpecSubmit and SpecGrade
MaxClock == 2
\* courses created in SpecEnroll
MaxEnrollCourses == 2
\* subscription rows in SpecSubscribe
MaxSubscriptions == 3
\* rows the handlers may add to the seeded store of SpecAuthor
MaxAuthored == 3
\* calls that run at the same time in SpecSubmitRace and SpecProgressRace
MaxConcurrent == 2
\* accepted update calls in SpecUpdate
MaxUpdates == 2
\* accepted updateStudentProgress calls in SpecProgress
MaxProgressCalls == 3
\* the width of an integer column in the model (32 in the database)
IntegerBits == 4

(***************************************************************************)
(* Program constants.                                                      *)
(***************************************************************************)
\* .limit(10) of both recent-activity queries
RecentLimit == 10

userRoleEnum == {"administrator", "moderator", "student"}
subscriptionStatusEnum == {"active", "expired", "cancelled", "pending"}

\* a nullable column: <<>> is SQL NULL, <<v>> a value
NULL == <<>>
Some(v) == <<v>>

RECURSIVE SumOver(_, _)
\* the sum of f[x] for x in S
SumOver(f, S) ==
    IF S = {} THEN 0
    ELSE LET x == CHOOSE x \in S : TRUE IN f[x] + SumOver(f, S \ {x})

Ids(table) == DOMAIN table

\* the store as one value, so that the aggregator can be evaluated on a
\* store other than the current one
Store ==
    [users |-> users, courses |-> courses, lessons |-> lessons,
     enrollments |-> enrollments, subscriptions |-> subscriptions,
     assignments |-> assignments, submissions |-> submissions]

RowCount ==
    Len(courses) + Len(lessons) + Len(enrollments) + Len(subscriptions)
        + Len(assignments) + Len(submissions)

(***************************************************************************)
(* The dashboard statistics aggregator (get_dashboard_stats.ts).  Every    *)
(* operator takes the store it reads as db.                                *)
(***************************************************************************)
EmptyStats ==
    [total_students |-> 0, total_courses |-> 0, total_lessons |-> 0,
     active_subscriptions |-> 0, recent_activities |-> <<>>]

\* PostgreSQL fixes no order among rows of equal submitted_at: a query takes
\* one of these orders among them
TieOrders == {"id_asc", "id_desc"}

\* ORDER BY submitted_at DESC: row x is returned before row y
Before(db, x, y, tie) ==
    \/ db.submissions[x].submitted_at > db.submissions[y].submitted_at
    \/ /\ db.submissions[x].submitted_at = db.submissions[y].submitted_at
       /\ IF tie = "id_asc" THEN x <= y ELSE x >= y

RECURSIVE OrderByLimitAscending(_, _, _, _)
\* mutant: ORDER BY submitted_at ascending
OrderByLimitAscending(db, scope, limit, tie) ==
    IF scope = {} \/ limit = 0 THEN <<>>
    ELSE LET first == CHOOSE x \in scope : \A y \in scope : Before(db, y, x, tie)
         IN  <<first>> \o OrderByLimitAscending(db, scope \ {first}, limit - 1, tie)

RECURSIVE OrderByLimit(_, _, _, _)
\* the first `limit` ids of `scope` in ORDER BY submitted_at DESC
OrderByLimit(db, scope, limit, tie) ==
    IF scope = {} \/ limit = 0 THEN <<>>
    ELSE LET first == CHOOSE x \in scope : \A y \in scope : Before(db, x, y, tie)
         IN  <<first>> \o OrderByLimit(db, scope \ {first}, limit - 1, tie)

\* the select list of the recent-activity queries, for submission id s
ActivityRow(db, s) ==
    LET sub == db.submissions[s]
        student == db.users[sub.student_id]
    IN  [id |-> s,
         type |-> "assignment_submission",
         description |-> <<"Assignment submission for: ", db.assignments[sub.assignment_id].title>>,
         created_at |-> sub.submitted_at,
         user_name |-> <<student.first_name, " ", student.last_name>>]

RecentActivities(db, scope, tie) ==
    LET ordered == OrderByLimit(db, scope, RecentLimit, tie)
    IN  [i \in DOMAIN ordered |-> ActivityRow(db, ordered[i])]

\* FROM assignment_submissions INNER JOIN users INNER JOIN assignments
AdminActivityScope(db) ==
    {s \in Ids(db.submissions) :
        /\ db.submissions[s].student_id \in Ids(db.users)
        /\ db.submissions[s].assignment_id \in Ids(db.assignments)}

\* mutant: counts every user, not only the students
AdminUserCount(db) ==
    Cardinality(Ids(db.users))

AdminStudentCount(db) ==
    Cardinality({u \in Ids(db.users) : db.users[u].role = "student"})

AdminActiveSubscriptions(db) ==
    Cardinality({s \in Ids(db.subscriptions) : db.subscriptions[s].status = "active"})

getAdministratorStats(db, tie) ==
    [total_students |-> AdminStudentCount(db),
     total_courses |-> Len(db.courses),
     total_lessons |-> Len(db.lessons),
     active_subscriptions |-> AdminActiveSubscriptions(db),
     recent_activities |-> RecentActivities(db, AdminActivityScope(db), tie)]

\* courseIds: the ids of the courses owned by userId
OwnedCourseIds(db, userId) ==
    {c \in Ids(db.courses) : db.courses[c].owner_id = userId}

\* mutant: select without DISTINCT, one result per enrollment row
EnrolledStudentRows(db, courseIds) ==
    {e \in Ids(db.enrollments) :
        /\ db.enrollments[e].course_id \in courseIds
        /\ db.enrollments[e].student_id \in Ids(db.users)
        /\ db.users[db.enrollments[e].student_id].role = "student"}

\* selectDistinct student_id FROM course_enrollments INNER JOIN users
EnrolledStudents(db, courseIds) ==
    {db.enrollments[e].student_id : e \in
        {e \in Ids(db.enrollments) :
            /\ db.enrollments[e].course_id \in courseIds
            /\ db.enrollments[e].student_id \in Ids(db.users)
            /\ db.users[db.enrollments[e].student_id].role = "student"}}

ModeratorCourseCount(db, userId) ==
    Cardinality({c \in Ids(db.courses) : db.courses[c].owner_id = userId})

\* mutant: the lesson count without the course filter
LessonCountAllCourses(db, courseIds) ==
    Cardinality(Ids(db.lessons))

ModeratorLessonCount(db, courseIds) ==
    Cardinality({l \in Ids(db.lessons) : db.lessons[l].course_id \in courseIds})

\* mutant: the subscription count without the status filter
ModeratorSubscriptionsAnyStatus(db, courseIds) ==
    Cardinality({s \in Ids(db.subscriptions) : db.subscriptions[s].course_id \in courseIds})

ModeratorActiveSubscriptions(db, courseIds) ==
    Cardinality({s \in Ids(db.subscriptions) :
        /\ db.subscriptions[s].status = "active"
        /\ db.subscriptions[s].course_id \in courseIds})

\* mutant: the activity query without the join on lessons and its filter
ModeratorActivityScopeUnfiltered(db, courseIds) ==
    AdminActivityScope(db)

\* ... INNER JOIN lessons WHERE lessons.course_id IN courseIds
ModeratorActivityScope(db, courseIds) ==
    {s \in AdminActivityScope(db) :
        LET lessonId == db.assignments[db.submissions[s].assignment_id].lesson_id
        IN  /\ lessonId \in Ids(db.lessons)
            /\ db.lessons[lessonId].course_id \in courseIds}

getModeratorStats(db, userId, tie) ==
    LET courseIds == OwnedCourseIds(db, userId)
    IN  IF courseIds = {} THEN EmptyStats
        ELSE [total_students |-> Cardinality(EnrolledStudents(db, courseIds)),
              total_courses |-> ModeratorCourseCount(db, userId),
              total_lessons |-> ModeratorLessonCount(db, courseIds),
              active_subscriptions |-> ModeratorActiveSubscriptions(db, courseIds),
              recent_activities |->
                  RecentActivities(db, ModeratorActivityScope(db, courseIds), tie)]

\* mutant: only the moderator branch is told apart, everyone else gets the
\* platform-wide statistics
getDashboardStatsNoStudentBranch(db, userId, userRole, tie) ==
    IF userRole = "moderator" THEN getModeratorStats(db, userId, tie)
    ELSE getAdministratorStats(db, tie)

\* mutant: the role argument is checked against the stored role of userId
getDashboardStatsChecksStoredRole(db, userId, userRole, tie) ==
    IF userId \notin Ids(db.users) \/ db.users[userId].role # userRole THEN EmptyStats
    ELSE IF userRole = "administrator" THEN getAdministratorStats(db, tie)
    ELSE IF userRole = "moderator" THEN getModeratorStats(db, userId, tie)
    ELSE EmptyStats

getDashboardStats(db, userId, userRole, tie) ==
    IF userRole = "administrator" THEN getAdministratorStats(db, tie)
    ELSE IF userRole = "moderator" THEN getModeratorStats(db, userId, tie)
    ELSE EmptyStats

\* the tables one call queries, in the order of its queries
AdministratorQueries ==
    <<"users", "courses", "lessons", "subscriptions", "assignment_submissions">>

\* mutant: no early return for a moderator without courses
ModeratorQueriesNoEarlyReturn(db, userId) ==
    <<"courses", "course_enrollments", "courses", "lessons", "subscriptions",
      "assignment_submissions">>

ModeratorQueries(db, userId) ==
    IF OwnedCourseIds(db, userId) = {} THEN <<"courses">>
    ELSE <<"courses", "course_enrollments", "courses", "lessons", "subscriptions",
           "assignment_submissions">>

DashboardQueries(db, userId, userRole) ==
    IF userRole = "administrator" THEN AdministratorQueries
    ELSE IF userRole = "moderator" THEN ModeratorQueries(db, userId)
    ELSE <<>>

(***************************************************************************)
(* The handlers that write the store.  A handler runs its checks in the    *)
(* order of the code; the first check that fails throws, and the call      *)
(* ends with that error and the store as it was.                           *)
(***************************************************************************)
\* no check failed
NoError == <<>>
\* the store rejects a row whose foreign key matches no row
ForeignKeyViolation == <<"violates foreign key constraint">>

\* the last call threw
Threw == "error" \in DOMAIN call

\* the row enrollStudent inserts: completed_at is left NULL, enrolled_at
\* defaults to now
EnrollmentRow(course_id, student_id, enrolled_at) ==
    [course_id |-> course_id, student_id |-> student_id, enrolled_at |-> enrolled_at,
     completed_at |-> NULL, progress_percentage |-> 0]

\* a subscription row; dates are day numbers
SubscriptionRow(user_id, course_id, status, start_date, end_date) ==
    [user_id |-> user_id, course_id |-> course_id, status |-> status,
     start_date |-> start_date, end_date |-> end_date]

\* the row submitAssignment inserts
SubmissionRow(assignment_id, student_id, submission_data, submitted_at) ==
    [assignment_id |-> assignment_id, student_id |-> student_id,
     submission_data |-> submission_data, status |-> "submitted", score |-> NULL,
     feedback |-> NULL, submitted_at |-> submitted_at, graded_at |-> NULL,
     graded_by |-> NULL]

\* a course titled "Course", without description, not public, last written
\* at time 0
CourseRow(owner_id, is_active) ==
    [owner_id |-> owner_id, title |-> "Course", description |-> NULL, is_public |-> FALSE,
     is_active |-> is_active, updated_at |-> 0]

\* a lesson titled "Lesson", without description, last written at time 0
LessonRow(course_id, order_index) ==
    [course_id |-> course_id, title |-> "Lesson", description |-> NULL,
     order_index |-> order_index, updated_at |-> 0]

\* createCourse: no check of its own; owner_id is a foreign key to users
createCourse(owner_id, is_active) ==
    /\ IF owner_id \notin Ids(users)
       THEN /\ call' = [op |-> "createCourse", input |-> [owner_id |-> owner_id],
                        error |-> ForeignKeyViolation]
            /\ UNCHANGED courses
       ELSE LET row == [CourseRow(owner_id, IF is_active = NULL THEN TRUE ELSE is_active[1])
                           EXCEPT !.updated_at = now]
            IN  /\ courses' = Append(courses, row)
                /\ call' = [op |-> "createCourse", id |-> Len(courses) + 1]
    /\ UNCHANGED <<content, updates, progress, spent, inflight, run, users, lessons, enrollments, subscriptions, assignments,
                   submissions, now>>

\* mutant: the course is not looked up
createLessonChecksNoParent(course_id) == NoError

\* the check of createLesson: the error thrown, or NoError
createLessonChecks(course_id) ==
    IF course_id \notin Ids(courses)
    THEN <<"Course with id ", course_id, " does not exist">>
    ELSE NoError

createLesson(course_id, order_index) ==
    /\ LET error == createLessonChecks(course_id)
       IN  IF error # NoError
           THEN /\ call' = [op |-> "createLesson", input |-> [course_id |-> course_id],
                            error |-> error]
                /\ UNCHANGED lessons
           ELSE /\ lessons' = Append(lessons,
                        [LessonRow(course_id, order_index) EXCEPT !.updated_at = now])
                /\ call' = [op |-> "createLesson", id |-> Len(lessons) + 1]
    /\ UNCHANGED <<content, updates, progress, spent, inflight, run, users, courses, enrollments, subscriptions, assignments, submissions, now>>

\* mutant: the check for an existing enrollment is left out
enrollStudentChecksNoDuplicate(courseId, studentId) ==
    IF studentId \notin Ids(users) THEN <<"Student with ID ", studentId, " not found">>
    ELSE IF users[studentId].role # "student" THEN <<"User with ID ", studentId, " is not a student">>
    ELSE IF courseId \notin Ids(courses) THEN <<"Course with ID ", courseId, " not found">>
    ELSE IF ~ courses[courseId].is_active THEN <<"Course with ID ", courseId, " is not active">>
    ELSE NoError

\* the checks of enrollStudent: the error thrown, or NoError
enrollStudentChecks(courseId, studentId) ==
    IF studentId \notin Ids(users) THEN <<"Student with ID ", studentId, " not found">>
    ELSE IF users[studentId].role # "student" THEN <<"User with ID ", studentId, " is not a student">>
    ELSE IF courseId \notin Ids(courses) THEN <<"Course with ID ", courseId, " not found">>
    ELSE IF ~ courses[courseId].is_active THEN <<"Course with ID ", courseId, " is not active">>
    ELSE IF \E e \in Ids(enrollments) :
                /\ enrollments[e].course_id = courseId
                /\ enrollments[e].student_id = studentId
         THEN <<"Student with ID ", studentId, " is already enrolled in course ", courseId>>
    ELSE NoError

enrollStudent(courseId, studentId) ==
    LET error == enrollStudentChecks(courseId, studentId)
        input == [courseId |-> courseId, studentId |-> studentId]
    IN  /\ IF error # NoError
           THEN /\ call' = [op |-> "enrollStudent", input |-> input, error |-> error]
                /\ UNCHANGED enrollments
           ELSE /\ enrollments' = Append(enrollments, EnrollmentRow(courseId, studentId, now))
                /\ call' = [op |-> "enrollStudent", input |-> input,
                            id |-> Len(enrollments) + 1]
        /\ UNCHANGED <<content, updates, progress, spent, inflight, run, users, courses, lessons, subscriptions, assignments,
                       submissions, now>>

\* a subscription row written to the table directly, with any status, as the
\* test fixtures and the billing side do: createSubscription only ever
\* writes 'pending'
insertSubscription(user_id, course_id, status) ==
    /\ user_id \in Ids(users)
    /\ course_id \in Ids(courses)
    /\ status \in subscriptionStatusEnum
    /\ LET row == SubscriptionRow(user_id, course_id, status, now, now + 1)
       IN  /\ subscriptions' = Append(subscriptions, row)
           /\ call' = [op |-> "insertSubscription", id |-> Len(subscriptions) + 1]
    /\ UNCHANGED <<content, updates, progress, spent, inflight, run, users, courses, lessons, enrollments, assignments, submissions, now>>

\* the check of createAssignment: the error thrown, or NoError
createAssignmentChecks(lesson_id) ==
    IF lesson_id \notin Ids(lessons) THEN <<"Lesson with id ", lesson_id, " not found">>
    ELSE NoError

createAssignment(lesson_id, title, due_date) ==
    /\ LET error == createAssignmentChecks(lesson_id)
           row == [lesson_id |-> lesson_id, title |-> title, due_date |-> due_date]
       IN  IF error # NoError
           THEN /\ call' = [op |-> "createAssignment", input |-> [lesson_id |-> lesson_id],
                            error |-> error]
                /\ UNCHANGED assignments
           ELSE /\ assignments' = Append(assignments, row)
                /\ call' = [op |-> "createAssignment",
                            id |-> Len(assignments) + 1]
    /\ UNCHANGED <<content, updates, progress, spent, inflight, run, users, courses, lessons, enrollments, subscriptions, submissions, now>>

\* mutant: the check for an existing submission is left out
submitAssignmentChecksNoDuplicate(assignment_id, student_id) ==
    IF assignment_id \notin Ids(assignments) THEN <<"Assignment not found">>
    ELSE IF (IF assignments[assignment_id].due_date = NULL THEN FALSE
             ELSE now > assignments[assignment_id].due_date[1])
         THEN <<"Assignment submission is past due date">>
    ELSE IF student_id \notin Ids(users) THEN ForeignKeyViolation
    ELSE NoError

\* mutant: the due date is not looked at
submitAssignmentChecksNoDueDate(assignment_id, student_id) ==
    IF assignment_id \notin Ids(assignments) THEN <<"Assignment not found">>
    ELSE IF \E s \in Ids(submissions) :
                /\ submissions[s].assignment_id = assignment_id
                /\ submissions[s].student_id = student_id
         THEN <<"Student has already submitted this assignment">>
    ELSE IF student_id \notin Ids(users) THEN ForeignKeyViolation
    ELSE NoError

\* the checks of submitAssignment: the error thrown, or NoError
submitAssignmentChecks(assignment_id, student_id) ==
    IF assignment_id \notin Ids(assignments) THEN <<"Assignment not found">>
    ELSE IF (IF assignments[assignment_id].due_date = NULL THEN FALSE
             ELSE now > assignments[assignment_id].due_date[1])
         THEN <<"Assignment submission is past due date">>
    ELSE IF \E s \in Ids(submissions) :
                /\ submissions[s].assignment_id = assignment_id
                /\ submissions[s].student_id = student_id
         THEN <<"Student has already submitted this assignment">>
    ELSE IF student_id \notin Ids(users) THEN ForeignKeyViolation
    ELSE NoError

submitAssignment(assignment_id, student_id, submission_data) ==
    LET error == submitAssignmentChecks(assignment_id, student_id)
        input == [assignment_id |-> assignment_id, student_id |-> student_id,
                  submission_data |-> submission_data]
    IN  /\ IF error # NoError
           THEN /\ call' = [op |-> "submitAssignment", input |-> input, error |-> error]
                /\ UNCHANGED submissions
           ELSE /\ submissions' = Append(submissions,
                        SubmissionRow(assignment_id, student_id, submission_data, now))
                /\ call' = [op |-> "submitAssignment", input |-> input,
                            id |-> Len(submissions) + 1]
        /\ UNCHANGED <<content, updates, progress, spent, inflight, run, users, courses, lessons, enrollments, subscriptions,
                       assignments, now>>

\* mutant: only a subscription with status 'active' counts as a duplicate
createSubscriptionChecksActiveOnly(user_id, course_id, start_date, end_date) ==
    IF user_id \notin Ids(users) THEN <<"User with ID ", user_id, " does not exist">>
    ELSE IF course_id \notin Ids(courses)
         THEN <<"Course with ID ", course_id, " does not exist">>
    ELSE IF start_date >= end_date THEN <<"Start date must be before end date">>
    ELSE IF \E x \in Ids(subscriptions) :
                /\ subscriptions[x].user_id = user_id
                /\ subscriptions[x].course_id = course_id
                /\ subscriptions[x].status = "active"
         THEN <<"User already has an active subscription for this course">>
    ELSE NoError

\* mutant: equal dates pass the date check
createSubscriptionChecksEqualDates(user_id, course_id, start_date, end_date) ==
    IF user_id \notin Ids(users) THEN <<"User with ID ", user_id, " does not exist">>
    ELSE IF course_id \notin Ids(courses)
         THEN <<"Course with ID ", course_id, " does not exist">>
    ELSE IF start_date > end_date THEN <<"Start date must be before end date">>
    ELSE IF \E x \in Ids(subscriptions) :
                /\ subscriptions[x].user_id = user_id
                /\ subscriptions[x].course_id = course_id
                /\ subscriptions[x].status \in {"active", "pending"}
         THEN <<"User already has an active subscription for this course">>
    ELSE NoError

\* the checks of createSubscription: the error thrown, or NoError
createSubscriptionChecks(user_id, course_id, start_date, end_date) ==
    IF user_id \notin Ids(users) THEN <<"User with ID ", user_id, " does not exist">>
    ELSE IF course_id \notin Ids(courses)
         THEN <<"Course with ID ", course_id, " does not exist">>
    ELSE IF start_date >= end_date THEN <<"Start date must be before end date">>
    ELSE IF \E x \in Ids(subscriptions) :
                /\ subscriptions[x].user_id = user_id
                /\ subscriptions[x].course_id = course_id
                /\ subscriptions[x].status \in {"active", "pending"}
         THEN <<"User already has an active subscription for this course">>
    ELSE NoError

createSubscription(user_id, course_id, start_date, end_date) ==
    LET error == createSubscriptionChecks(user_id, course_id, start_date, end_date)
        input == [user_id |-> user_id, course_id |-> course_id, start_date |-> start_date,
                  end_date |-> end_date]
    IN  /\ IF error # NoError
           THEN /\ call' = [op |-> "createSubscription", input |-> input, error |-> error]
                /\ UNCHANGED subscriptions
           ELSE /\ subscriptions' = Append(subscriptions,
                        SubscriptionRow(user_id, course_id, "pending", start_date, end_date))
                /\ call' = [op |-> "createSubscription", input |-> input,
                            id |-> Len(subscriptions) + 1]
        /\ UNCHANGED <<content, updates, progress, spent, inflight, run, users, courses, lessons, enrollments, assignments,
                       submissions, now>>

\* the status of a subscription written to the table directly, as the
\* tests do and as billing does: a pending subscription becomes active, a
\* pending or active one is cancelled or expires; no handler writes it
setSubscriptionStatus(id, status) ==
    /\ id \in Ids(subscriptions)
    /\ subscriptions[id].status \in {"pending", "active"}
    /\ status \in {"active", "cancelled", "expired"}
    /\ subscriptions[id].status # status
    /\ subscriptions' = [subscriptions EXCEPT ![id].status = status]
    /\ call' = [op |-> "setSubscriptionStatus", id |-> id]
    /\ UNCHANGED <<content, updates, progress, spent, inflight, run, users, courses, lessons, enrollments, assignments,
                   submissions, now>>

\* the range of an integer column, at the width IntegerBits: a value outside
\* it is rejected by the database
IntegerMax == 2 ^ (IntegerBits - 1) - 1
IntegerMin == - (2 ^ (IntegerBits - 1))
IntegerOutOfRange == <<"integer out of range">>

\* the history of a pair: its accepted calls and the sum of their timeSpent
SpentOf(studentId, lessonId) ==
    LET known == {r \in spent : r.student_id = studentId /\ r.lesson_id = lessonId}
    IN  IF known = {} THEN [student_id |-> studentId, lesson_id |-> lessonId, calls |-> 0,
                            total |-> 0]
        ELSE CHOOSE r \in known : TRUE

Accepted(studentId, lessonId, timeSpent) ==
    LET old == SpentOf(studentId, lessonId)
    IN  spent' = (spent \ {old})
                   \cup {[old EXCEPT !.calls = @ + 1, !.total = @ + timeSpent]}

\* mutant: the new time replaces the stored one
ProgressUpdateOverwrite(currentProgress, timeSpent, completed) ==
    LET newTimeSpent == timeSpent
        isCompleted == IF completed # NULL THEN completed[1] ELSE currentProgress.completed
    IN  [currentProgress EXCEPT
            !.time_spent = newTimeSpent,
            !.completed = isCompleted,
            !.completion_date = IF isCompleted /\ ~ currentProgress.completed
                                THEN Some(now) ELSE currentProgress.completion_date]

\* mutant: every call that leaves the record completed stamps the date
ProgressUpdateRestamp(currentProgress, timeSpent, completed) ==
    LET newTimeSpent == currentProgress.time_spent + timeSpent
        isCompleted == IF completed # NULL THEN completed[1] ELSE currentProgress.completed
    IN  [currentProgress EXCEPT
            !.time_spent = newTimeSpent,
            !.completed = isCompleted,
            !.completion_date = IF isCompleted
                                THEN Some(now) ELSE currentProgress.completion_date]

\* the row written over an existing one
ProgressUpdate(currentProgress, timeSpent, completed) ==
    LET newTimeSpent == currentProgress.time_spent + timeSpent
        isCompleted == IF completed # NULL THEN completed[1] ELSE currentProgress.completed
    IN  [currentProgress EXCEPT
            !.time_spent = newTimeSpent,
            !.completed = isCompleted,
            !.completion_date = IF isCompleted /\ ~ currentProgress.completed
                                THEN Some(now) ELSE currentProgress.completion_date]

\* mutant: a new row is created with completed set
ProgressInsertCompleted(studentId, lessonId, timeSpent, completed) ==
    [student_id |-> studentId, lesson_id |-> lessonId, time_spent |-> timeSpent,
     completed |-> TRUE,
     completion_date |-> IF completed = Some(TRUE) THEN Some(now) ELSE NULL]

\* the row created when the pair has none; completed is NULL when the
\* argument is left out
ProgressInsert(studentId, lessonId, timeSpent, completed) ==
    [student_id |-> studentId, lesson_id |-> lessonId, time_spent |-> timeSpent,
     completed |-> (completed = Some(TRUE)),
     completion_date |-> IF completed = Some(TRUE) THEN Some(now) ELSE NULL]

updateStudentProgress(studentId, lessonId, timeSpent, completed) ==
    LET existingProgress ==
            {x \in Ids(progress) :
                progress[x].student_id = studentId /\ progress[x].lesson_id = lessonId}
        input == [studentId |-> studentId, lessonId |-> lessonId, timeSpent |-> timeSpent,
                  completed |-> completed]
        throw(error) ==
            /\ call' = [op |-> "updateStudentProgress", input |-> input, error |-> error]
            /\ UNCHANGED <<progress, spent>>
    IN  /\ IF existingProgress # {}
           THEN \E x \in existingProgress :
                  LET row == ProgressUpdate(progress[x], timeSpent, completed)
                  IN  IF row.time_spent < IntegerMin \/ row.time_spent > IntegerMax
                      THEN throw(IntegerOutOfRange)
                      ELSE /\ progress' = [progress EXCEPT ![x] = row]
                           /\ call' = [op |-> "updateStudentProgress", input |-> input,
                                       id |-> x]
                           /\ Accepted(studentId, lessonId, timeSpent)
           ELSE LET row == ProgressInsert(studentId, lessonId, timeSpent, completed)
                IN  IF row.time_spent < IntegerMin \/ row.time_spent > IntegerMax
                    THEN throw(IntegerOutOfRange)
                    ELSE IF studentId \notin Ids(users) \/ lessonId \notin Ids(lessons)
                    THEN throw(ForeignKeyViolation)
                    ELSE /\ progress' = Append(progress, row)
                         /\ call' = [op |-> "updateStudentProgress", input |-> input,
                                     id |-> Len(progress) + 1]
                         /\ Accepted(studentId, lessonId, timeSpent)
        /\ UNCHANGED <<content, updates, inflight, users, courses, lessons, enrollments, subscriptions,
                       assignments, submissions, now, run>>

(***************************************************************************)
(* The partial updates.  A field of the input is NULL when it is left out  *)
(* and Some(v) when it is given; a nullable column given as null is        *)
(* Some(NULL).                                                             *)
(***************************************************************************)
\* the value written to a column: the input's when given, else the stored one
Provided(given, stored) == IF given # NULL THEN given[1] ELSE stored

\* mutant: a description left out is written as null
updateCourseDataNullsDescription(row, input) ==
    [row EXCEPT !.title = Provided(input.title, @),
                !.description = IF input.description # NULL THEN input.description[1]
                                ELSE NULL,
                !.is_public = Provided(input.is_public, @),
                !.is_active = Provided(input.is_active, @),
                !.updated_at = now]

\* the course row after .set(updateData)
updateCourseData(row, input) ==
    [row EXCEPT !.title = Provided(input.title, @),
                !.description = Provided(input.description, @),
                !.is_public = Provided(input.is_public, @),
                !.is_active = Provided(input.is_active, @),
                !.updated_at = now]

updateCourse(input) ==
    /\ IF input.id \notin Ids(courses)
       THEN /\ call' = [op |-> "updateCourse", input |-> input,
                        error |-> <<"Course with id ", input.id, " not found">>]
            /\ UNCHANGED <<courses, updates>>
       ELSE /\ courses' = [courses EXCEPT ![input.id] = updateCourseData(@, input)]
            /\ call' = [op |-> "updateCourse", input |-> input, id |-> input.id]
            /\ updates' = updates + 1
    /\ UNCHANGED <<content, progress, spent, inflight, run, users, lessons, enrollments, subscriptions,
                   assignments, submissions, now>>

\* the lesson row after .set(updateData)
updateLessonData(row, input) ==
    [row EXCEPT !.title = Provided(input.title, @),
                !.description = Provided(input.description, @),
                !.order_index = Provided(input.order_index, @),
                !.updated_at = now]

updateLesson(input) ==
    /\ IF input.id \notin Ids(lessons)
       THEN /\ call' = [op |-> "updateLesson", input |-> input,
                        error |-> <<"Lesson with id ", input.id, " not found">>]
            /\ UNCHANGED <<lessons, updates>>
       ELSE /\ lessons' = [lessons EXCEPT ![input.id] = updateLessonData(@, input)]
            /\ call' = [op |-> "updateLesson", input |-> input, id |-> input.id]
            /\ updates' = updates + 1
    /\ UNCHANGED <<content, progress, spent, inflight, run, users, courses, enrollments, subscriptions,
                   assignments, submissions, now>>

ContentRow(lesson_id, content_type, order_index) ==
    [lesson_id |-> lesson_id, content_type |-> content_type, title |-> "Content",
     content_data |-> "data", order_index |-> order_index]

\* the lesson content row after .set(updateData)
updateLessonContentData(row, input) ==
    [row EXCEPT !.title = Provided(input.title, @),
                !.content_data = Provided(input.content_data, @),
                !.order_index = Provided(input.order_index, @)]

\* updateData is empty when the input names no field: the update statement
\* has nothing to set and fails before any row is looked at
NoValuesToSet == <<"No values to set">>

updateLessonContent(input) ==
    /\ IF input.title = NULL /\ input.content_data = NULL /\ input.order_index = NULL
       THEN /\ call' = [op |-> "updateLessonContent", input |-> input,
                        error |-> NoValuesToSet]
            /\ UNCHANGED <<lessonContent, updates>>
       ELSE IF input.id \notin Ids(lessonContent)
       THEN /\ call' = [op |-> "updateLessonContent", input |-> input,
                        error |-> <<"Lesson content not found">>]
            /\ UNCHANGED <<lessonContent, updates>>
       ELSE /\ lessonContent' =
                    [lessonContent EXCEPT ![input.id] = updateLessonContentData(@, input)]
            /\ call' = [op |-> "updateLessonContent", input |-> input, id |-> input.id]
            /\ updates' = updates + 1
    /\ UNCHANGED <<tests, testQuestions, progress, spent, inflight, run, users, courses, lessons,
                   enrollments, subscriptions, assignments, submissions, now>>

(***************************************************************************)
(* Lesson content, tests and test questions, and the handlers that list    *)
(* the rows of a parent in ORDER BY order_index.                           *)
(***************************************************************************)
\* createLessonContent, called with content_data that is valid for its type
createLessonContent(lesson_id, content_type, order_index) ==
    /\ IF lesson_id \notin Ids(lessons)
       THEN /\ call' = [op |-> "createLessonContent", input |-> [lesson_id |-> lesson_id],
                        error |-> <<"Lesson with id ", lesson_id, " not found">>]
            /\ UNCHANGED lessonContent
       ELSE /\ lessonContent' =
                    Append(lessonContent, ContentRow(lesson_id, content_type, order_index))
            /\ call' = [op |-> "createLessonContent", id |-> Len(lessonContent) + 1]
    /\ UNCHANGED <<tests, testQuestions, updates, progress, spent, inflight, run, users, courses,
                   lessons, enrollments, subscriptions, assignments, submissions, now>>

createTest(lesson_content_id, title) ==
    /\ IF lesson_content_id \notin Ids(lessonContent)
       THEN /\ call' = [op |-> "createTest",
                        input |-> [lesson_content_id |-> lesson_content_id],
                        error |-> <<"Lesson content with id ", lesson_content_id,
                                    " not found">>]
            /\ UNCHANGED tests
       ELSE /\ tests' = Append(tests, [lesson_content_id |-> lesson_content_id,
                                       title |-> title])
            /\ call' = [op |-> "createTest", id |-> Len(tests) + 1]
    /\ UNCHANGED <<lessonContent, testQuestions, updates, progress, spent, inflight, run, users,
                   courses, lessons, enrollments, subscriptions, assignments, submissions,
                   now>>

QuestionRow(test_id, order_index) ==
    [test_id |-> test_id, question_type |-> "short_answer", order_index |-> order_index]

\* createTestQuestion, called with a short-answer question: the checks of
\* the options and of the answer apply to the other question types
createTestQuestion(test_id, order_index) ==
    /\ IF test_id \notin Ids(tests)
       THEN /\ call' = [op |-> "createTestQuestion", input |-> [test_id |-> test_id],
                        error |-> <<"Test with id ", test_id, " does not exist">>]
            /\ UNCHANGED testQuestions
       ELSE /\ testQuestions' = Append(testQuestions, QuestionRow(test_id, order_index))
            /\ call' = [op |-> "createTestQuestion", id |-> Len(testQuestions) + 1]
    /\ UNCHANGED <<lessonContent, tests, updates, progress, spent, inflight, run, users, courses,
                   lessons, enrollments, subscriptions, assignments, submissions, now>>

RECURSIVE OrderById(_, _, _)
\* mutant: the rows come back in the order of their insertion
OrderById(table, scope, tie) ==
    IF scope = {} THEN <<>>
    ELSE LET first == CHOOSE x \in scope : \A y \in scope : x <= y
         IN  <<[id |-> first, row |-> table[first]]>> \o OrderById(table, scope \ {first}, tie)

RECURSIVE OrderByIndex(_, _, _)
\* the rows of scope in ORDER BY order_index ASC, each with its id; rows of
\* equal order_index come in the order the query happens to take
OrderByIndex(table, scope, tie) ==
    IF scope = {} THEN <<>>
    ELSE LET first ==
                CHOOSE x \in scope : \A y \in scope :
                    \/ table[x].order_index < table[y].order_index
                    \/ /\ table[x].order_index = table[y].order_index
                       /\ IF tie = "id_asc" THEN x <= y ELSE x >= y
         IN  <<[id |-> first, row |-> table[first]]>>
                \o OrderByIndex(table, scope \ {first}, tie)

\* a handler that reads: the call is recorded, nothing is written
Returns(op, input, output) ==
    /\ call' = [op |-> op, input |-> input, output |-> output]
    /\ UNCHANGED <<content, updates, progress, spent, inflight, run, users, courses, lessons,
                   enrollments, subscriptions, assignments, submissions, now>>

getLessonsByCourse(courseId, tie) ==
    Returns("getLessonsByCourse", courseId,
            OrderByIndex(lessons, {x \in Ids(lessons) : lessons[x].course_id = courseId}, tie))

getLessonContent(lessonId, tie) ==
    Returns("getLessonContent", lessonId,
            OrderByIndex(lessonContent,
                {x \in Ids(lessonContent) : lessonContent[x].lesson_id = lessonId}, tie))

getTestQuestions(testId, tie) ==
    Returns("getTestQuestions", testId,
            OrderByIndex(testQuestions,
                {x \in Ids(testQuestions) : testQuestions[x].test_id = testId}, tie))

\* mutant: the role of the grader is not looked at
gradeAssignmentChecksAnyRole(submission_id, graded_by) ==
    IF submission_id \notin Ids(submissions) THEN <<"Assignment submission not found">>
    ELSE IF graded_by \notin Ids(users) THEN <<"Grader not found">>
    ELSE NoError

\* the checks of gradeAssignment: the error thrown, or NoError
gradeAssignmentChecks(submission_id, graded_by) ==
    IF submission_id \notin Ids(submissions) THEN <<"Assignment submission not found">>
    ELSE IF graded_by \notin Ids(users) THEN <<"Grader not found">>
    ELSE IF users[graded_by].role = "student" THEN <<"Students cannot grade assignments">>
    ELSE NoError

\* the columns gradeAssignment sets
Graded(row, score, feedback, graded_by) ==
    [row EXCEPT !.score = Some(score), !.feedback = feedback, !.status = "graded",
                !.graded_at = Some(now), !.graded_by = Some(graded_by)]

\* mutant: the update has no WHERE clause
gradeAssignmentEveryRow(submission_id, score, feedback, graded_by) ==
    LET error == gradeAssignmentChecks(submission_id, graded_by)
        input == [submission_id |-> submission_id, score |-> score, feedback |-> feedback,
                  graded_by |-> graded_by]
    IN  /\ IF error # NoError
           THEN /\ call' = [op |-> "gradeAssignment", input |-> input, error |-> error]
                /\ UNCHANGED submissions
           ELSE /\ submissions' = [x \in Ids(submissions) |->
                                      Graded(submissions[x], score, feedback, graded_by)]
                /\ call' = [op |-> "gradeAssignment", input |-> input, id |-> submission_id]
        /\ UNCHANGED <<content, updates, progress, spent, inflight, run, users, courses, lessons, enrollments, subscriptions,
                       assignments, now>>

\* feedback is a string or NULL
gradeAssignment(submission_id, score, feedback, graded_by) ==
    LET error == gradeAssignmentChecks(submission_id, graded_by)
        input == [submission_id |-> submission_id, score |-> score, feedback |-> feedback,
                  graded_by |-> graded_by]
    IN  /\ IF error # NoError
           THEN /\ call' = [op |-> "gradeAssignment", input |-> input, error |-> error]
                /\ UNCHANGED submissions
           ELSE /\ submissions' = [submissions EXCEPT ![submission_id] =
                                      Graded(@, score, feedback, graded_by)]
                /\ call' = [op |-> "gradeAssignment", input |-> input, id |-> submission_id]
        /\ UNCHANGED <<content, updates, progress, spent, inflight, run, users, courses, lessons, enrollments, subscriptions,
                       assignments, now>>

\* mutant: the call also marks the active subscriptions it counted as expired
GetDashboardStatsExpiring(userId, userRole, tie) ==
    /\ call' = [op |-> "getDashboardStats",
                input |-> [userId |-> userId, userRole |-> userRole],
                output |-> getDashboardStats(Store, userId, userRole, tie),
                queries |-> DashboardQueries(Store, userId, userRole)]
    /\ subscriptions' = [s \in Ids(subscriptions) |->
          IF subscriptions[s].status = "active"
          THEN [subscriptions[s] EXCEPT !.status = "expired"]
          ELSE subscriptions[s]]
    /\ UNCHANGED <<content, updates, progress, spent, inflight, run, users, courses, lessons, enrollments, assignments, submissions, now>>

\* the aggregator, called with any user id and role
GetDashboardStats(userId, userRole, tie) ==
    /\ call' = [op |-> "getDashboardStats",
                input |-> [userId |-> userId, userRole |-> userRole],
                output |-> getDashboardStats(Store, userId, userRole, tie),
                queries |-> DashboardQueries(Store, userId, userRole)]
    /\ UNCHANGED <<content, updates, progress, spent, inflight, run, users, courses, lessons, enrollments, subscriptions, assignments,
                   submissions, now>>

(***************************************************************************)
(* getDashboardStats query by query.  Each await of the handler is a point *)
(* where other requests run: the call in flight keeps the answers it has   *)
(* in run, and every query reads the store as it is when the query runs.   *)
(* run.seen keeps the store each query read.                               *)
(***************************************************************************)
\* no getDashboardStats call is in flight
NoRun == [pc |-> 0]

\* the tables getModeratorStats queries when courses are owned
ModeratorQueryTables ==
    <<"courses", "course_enrollments", "courses", "lessons", "subscriptions",
      "assignment_submissions">>

\* the tables a call with these answers so far queries in all
PlannedQueries(input, answers) ==
    IF input.userRole = "administrator" THEN AdministratorQueries
    ELSE IF input.userRole = "moderator"
         THEN IF answers # <<>> /\ answers[1] = {} THEN <<"courses">>
              ELSE ModeratorQueryTables
    ELSE <<>>

\* the answer of the next query of a call on store db, after `answers`
QueryAnswer(db, input, answers, tie) ==
    LET k == Len(answers) + 1
    IN  IF input.userRole = "administrator"
        THEN IF k = 1 THEN AdminStudentCount(db)
             ELSE IF k = 2 THEN Len(db.courses)
             ELSE IF k = 3 THEN Len(db.lessons)
             ELSE IF k = 4 THEN AdminActiveSubscriptions(db)
             ELSE RecentActivities(db, AdminActivityScope(db), tie)
        ELSE IF k = 1 THEN OwnedCourseIds(db, input.userId)
             ELSE IF k = 2 THEN Cardinality(EnrolledStudents(db, answers[1]))
             ELSE IF k = 3 THEN ModeratorCourseCount(db, input.userId)
             ELSE IF k = 4 THEN ModeratorLessonCount(db, answers[1])
             ELSE IF k = 5 THEN ModeratorActiveSubscriptions(db, answers[1])
             ELSE RecentActivities(db, ModeratorActivityScope(db, answers[1]), tie)

\* the record returned once every planned query has answered
AssembleStats(input, answers) ==
    IF input.userRole = "administrator"
    THEN [total_students |-> answers[1], total_courses |-> answers[2],
          total_lessons |-> answers[3], active_subscriptions |-> answers[4],
          recent_activities |-> answers[5]]
    ELSE IF input.userRole = "moderator" /\ answers[1] # {}
    THEN [total_students |-> answers[2], total_courses |-> answers[3],
          total_lessons |-> answers[4], active_subscriptions |-> answers[5],
          recent_activities |-> answers[6]]
    ELSE EmptyStats

\* a call begins, and is the most recent call from then on; for a role
\* other than the two staff roles it returns at once, without a query
BeginStats(userId, userRole) ==
    LET input == [userId |-> userId, userRole |-> userRole]
    IN  /\ run.pc = 0
        /\ IF PlannedQueries(input, <<>>) = <<>>
           THEN /\ call' = [op |-> "getDashboardStats", input |-> input,
                            output |-> AssembleStats(input, <<>>), queries |-> <<>>,
                            seen |-> <<>>, failed |-> 0]
                /\ run' = run
           ELSE /\ run' = [pc |-> 1, input |-> input, answers |-> <<>>, seen |-> <<>>]
                /\ call' = [op |-> "getDashboardStats", input |-> input]
        /\ UNCHANGED <<content, updates, progress, spent, inflight, users, courses, lessons, enrollments, subscriptions,
                       assignments, submissions, now>>

\* mutant: every query of a call reads the store its first query read
QueryAnswersOnSnapshot(tie) ==
    /\ run.pc # 0
    /\ LET db == IF run.seen = <<>> THEN Store ELSE run.seen[1]
           answers == Append(run.answers, QueryAnswer(db, run.input, run.answers, tie))
           seen == Append(run.seen, Store)
           planned == PlannedQueries(run.input, answers)
       IN  IF Len(answers) = Len(planned)
           THEN /\ call' = [op |-> "getDashboardStats", input |-> run.input,
                            output |-> AssembleStats(run.input, answers),
                            queries |-> planned, seen |-> seen, failed |-> 0]
                /\ run' = NoRun
           ELSE /\ run' = [run EXCEPT !.pc = @ + 1, !.answers = answers, !.seen = seen]
                /\ call' = call
    /\ UNCHANGED <<content, updates, progress, spent, inflight, users, courses, lessons, enrollments, subscriptions,
                   assignments, submissions, now>>

\* the next query of the call in flight answers; after the last one the
\* call returns
QueryAnswers(tie) ==
    /\ run.pc # 0
    /\ LET answers == Append(run.answers, QueryAnswer(Store, run.input, run.answers, tie))
           seen == Append(run.seen, Store)
           planned == PlannedQueries(run.input, answers)
       IN  IF Len(answers) = Len(planned)
           THEN /\ call' = [op |-> "getDashboardStats", input |-> run.input,
                            output |-> AssembleStats(run.input, answers),
                            queries |-> planned, seen |-> seen, failed |-> 0]
                /\ run' = NoRun
           ELSE /\ run' = [run EXCEPT !.pc = @ + 1, !.answers = answers, !.seen = seen]
                /\ call' = call
    /\ UNCHANGED <<content, updates, progress, spent, inflight, users, courses, lessons, enrollments, subscriptions,
                   assignments, submissions, now>>

\* mutant: the catch block returns what was counted so far, the rest 0
QueryFailsDegraded ==
    /\ run.pc # 0
    /\ LET count(k) == IF k <= Len(run.answers) THEN run.answers[k] ELSE 0
           first == IF run.input.userRole = "administrator" THEN 1 ELSE 2
       IN  call' = [op |-> "getDashboardStats", input |-> run.input,
                    output |-> [total_students |-> count(first),
                                total_courses |-> count(first + 1),
                                total_lessons |-> count(first + 2),
                                active_subscriptions |-> count(first + 3),
                                recent_activities |-> <<>>],
                    queries |-> PlannedQueries(run.input, run.answers),
                    seen |-> run.seen, failed |-> run.pc]
    /\ run' = NoRun
    /\ UNCHANGED <<content, updates, progress, spent, inflight, users, courses, lessons, enrollments, subscriptions,
                   assignments, submissions, now>>

\* the next query of the call in flight fails: the catch block logs the
\* error and throws it again
QueryFails ==
    /\ run.pc # 0
    /\ call' = [op |-> "getDashboardStats", input |-> run.input,
                error |-> <<"query failed">>, failed |-> run.pc]
    /\ run' = NoRun
    /\ UNCHANGED <<content, updates, progress, spent, inflight, users, courses, lessons, enrollments, subscriptions,
                   assignments, submissions, now>>

\* time passes
Tick ==
    /\ now' = now + 1
    /\ UNCHANGED <<content, updates, progress, spent, inflight, run, users, courses, lessons, enrollments, subscriptions, assignments,
                   submissions, call>>

(***************************************************************************)
(* Inputs of the calls.                                                    *)
(***************************************************************************)
\* an id that matches no user
NoUser == Len(users) + 1
UserIdInputs == Ids(users) \cup {NoUser}
StudentIds == {u \in Ids(users) : users[u].role = "student"}
ModeratorIds == {u \in Ids(users) : users[u].role = "moderator"}
\* owners of new courses: the moderators and one user who is a student
CourseOwnerInputs == ModeratorIds \cup {CHOOSE u \in StudentIds : \A v \in StudentIds : u <= v}
\* the subscriber of new subscriptions: the first student
SubscriberInputs == {CHOOSE u \in StudentIds : \A v \in StudentIds : u <= v}
\* the callers of the dashboard: each stored role asking as itself, a student
\* and an unknown id asking as staff
CallerInputs ==
    {<<u, users[u].role>> : u \in Ids(users)}
    \cup {<<u, "moderator">> : u \in SubscriberInputs}
    \cup {<<NoUser, "administrator">>}
TitleInputs == {"Quiz"}
DueDateInputs == {NULL}
DataInputs == {"answer"}

(***************************************************************************)
(* Spec: a seeded school (the users, two courses with a lesson and an      *)
(* assignment each), extended by the handlers.                             *)
(***************************************************************************)
SeedUsers ==
    << [role |-> "administrator", first_name |-> "Admin", last_name |-> "User"],
       [role |-> "moderator", first_name |-> "Test", last_name |-> "Moderator"],
       [role |-> "moderator", first_name |-> "Other", last_name |-> "Moderator"],
       [role |-> "student", first_name |-> "Student", last_name |-> "One"],
       [role |-> "student", first_name |-> "Student", last_name |-> "Two"] >>

SeedLessons == << LessonRow(1, 1), LessonRow(2, 1) >>

SeedAssignments ==
    << [lesson_id |-> 1, title |-> "Moderator Assignment", due_date |-> NULL],
       [lesson_id |-> 2, title |-> "Other Assignment", due_date |-> NULL] >>

\* Student One is enrolled in the first course
SeedEnrollments == << EnrollmentRow(1, 4, 0) >>

\* rows of the seed: two courses, their lessons and assignments, the enrollment
SeedRows == 2 + Len(SeedLessons) + Len(SeedAssignments) + Len(SeedEnrollments)

NoCall == [op |-> "none"]

Init ==
    /\ users = SeedUsers
    /\ \E owner2 \in {2, 3} :
          courses = << CourseRow(2, TRUE),
                       CourseRow(owner2, TRUE) >>
    /\ lessons = SeedLessons
    /\ assignments = SeedAssignments
    /\ enrollments = SeedEnrollments
    /\ subscriptions = <<>>
    /\ submissions = <<>>
    /\ progress = <<>>
    /\ spent = {}
    /\ updates = 0
    /\ inflight = <<>>
    /\ lessonContent = <<>>
    /\ tests = <<>>
    /\ testQuestions = <<>>
    /\ now = 0
    /\ call = NoCall
    /\ run = NoRun

Insert ==
    \/ \E o \in CourseOwnerInputs, a \in {NULL, Some(FALSE)} : createCourse(o, a)
    \/ \E c \in Ids(courses) : createLesson(c, 1)
    \/ \E c \in Ids(courses), u \in StudentIds : enrollStudent(c, u)
    \/ \E u \in SubscriberInputs, c \in Ids(courses), st \in subscriptionStatusEnum :
          insertSubscription(u, c, st)
    \/ \E l \in Ids(lessons), t \in TitleInputs, d \in DueDateInputs : createAssignment(l, t, d)
    \/ \E a \in Ids(assignments), u \in StudentIds, d \in DataInputs :
          submitAssignment(a, u, d)

Query ==
    \E caller \in CallerInputs, tie \in TieOrders :
        GetDashboardStats(caller[1], caller[2], tie)

Next ==
    \/ RowCount < SeedRows + MaxNewRows /\ Insert
    \/ Query

Spec == Init /\ [][Next]_vars

(***************************************************************************)
(* SpecFeed: a school whose first course has received more submissions     *)
(* than the activity list holds; students keep submitting while time       *)
(* passes.                                                                 *)
(***************************************************************************)
\* six assignments in the lesson of the first course, one in the second
FeedAssignments ==
    [a \in 1 .. 7 |->
        [lesson_id |-> IF a = 7 THEN 2 ELSE 1, title |-> "Quiz", due_date |-> NULL]]

\* nine submissions of both students to the first course, at most three per
\* instant
FeedSubmissions ==
    [s \in 1 .. 9 |->
        SubmissionRow((s + 1) \div 2, 4 + ((s + 1) % 2), "answer", s \div 3)]

InitFeed ==
    /\ users = SeedUsers
    /\ courses = << CourseRow(2, TRUE),
                    CourseRow(3, TRUE) >>
    /\ lessons = SeedLessons
    /\ assignments = FeedAssignments
    /\ enrollments = SeedEnrollments
    /\ subscriptions = <<>>
    /\ submissions = FeedSubmissions
    /\ progress = <<>>
    /\ spent = {}
    /\ updates = 0
    /\ inflight = <<>>
    /\ lessonContent = <<>>
    /\ tests = <<>>
    /\ testQuestions = <<>>
    /\ now = FeedSubmissions[Len(FeedSubmissions)].submitted_at
    /\ call = NoCall
    /\ run = NoRun

Submit ==
    \E a \in Ids(assignments), u \in StudentIds, d \in DataInputs : submitAssignment(a, u, d)

NextFeed ==
    \/ Len(submissions) < Len(FeedSubmissions) + MaxNewSubmissions /\ Submit
    \/ now < FeedSubmissions[Len(FeedSubmissions)].submitted_at + MaxFeedTicks /\ Tick
    \/ Query

SpecFeed == InitFeed /\ [][NextFeed]_vars

(***************************************************************************)
(* SpecSteps: the seeded school of Spec, with getDashboardStats running    *)
(* query by query while other requests write between its queries, and any  *)
(* of its queries failing.                                                 *)
(***************************************************************************)
\* the callers: the administrator, a moderator with courses, a user without
\* courses asking as moderator, a student
StepModerator == CHOOSE u \in ModeratorIds : \A v \in ModeratorIds : u <= v
StepCallers ==
    {<<u, "administrator">> : u \in {u \in Ids(users) : users[u].role = "administrator"}}
    \cup {<<StepModerator, "moderator">>}
    \cup {<<u, r>> : u \in SubscriberInputs, r \in {"moderator", "student"}}

\* the writers: the moderator with courses adds a course and lessons, the
\* student not yet enrolled enrolls and submits
StepWrite ==
    \/ createCourse(StepModerator, NULL)
    \/ \E c \in Ids(courses) : createLesson(c, 1)
    \/ \E c \in Ids(courses), u \in StudentIds \ SubscriberInputs : enrollStudent(c, u)
    \/ \E a \in Ids(assignments), u \in StudentIds \ SubscriberInputs, d \in DataInputs :
          submitAssignment(a, u, d)

NextSteps ==
    \/ RowCount < SeedRows + MaxStepWrites /\ StepWrite
    \/ \E caller \in StepCallers : BeginStats(caller[1], caller[2])
    \/ \E tie \in TieOrders : QueryAnswers(tie)
    \/ QueryFails

SpecSteps == Init /\ [][NextSteps]_vars

(***************************************************************************)
(* SpecSubmit: students submit to an assignment without a due date and to  *)
(* one that is due, while time passes beyond the due date.                 *)
(***************************************************************************)
\* both assignments belong to the first lesson; the second is due at day 1
SubmitAssignments ==
    << [lesson_id |-> 1, title |-> "Open Assignment", due_date |-> NULL],
       [lesson_id |-> 1, title |-> "Due Assignment", due_date |-> Some(1)] >>

\* an id that matches no assignment
NoAssignment == Len(assignments) + 1

InitSubmit ==
    /\ users = SeedUsers
    /\ courses = << CourseRow(2, TRUE) >>
    /\ lessons = << LessonRow(1, 1) >>
    /\ assignments = SubmitAssignments
    /\ enrollments = <<>>
    /\ subscriptions = <<>>
    /\ submissions = <<>>
    /\ progress = <<>>
    /\ spent = {}
    /\ updates = 0
    /\ inflight = <<>>
    /\ lessonContent = <<>>
    /\ tests = <<>>
    /\ testQuestions = <<>>
    /\ now = 0
    /\ call = NoCall
    /\ run = NoRun

NextSubmit ==
    \/ \E a \in Ids(assignments) \cup {NoAssignment}, u \in StudentIds \cup {NoUser},
          d \in DataInputs : submitAssignment(a, u, d)
    \/ now < MaxClock /\ Tick

SpecSubmit == InitSubmit /\ [][NextSubmit]_vars

(***************************************************************************)
(* SpecGrade: two students have submitted to the open assignment; staff,   *)
(* a student and an unknown user grade while time passes.                  *)
(***************************************************************************)
\* an id that matches no submission
NoSubmission == Len(submissions) + 1
\* score and feedback of a grading
GradeInputs == {<<7, Some("Good work")>>, <<0, NULL>>}
\* the graders: the staff, the first student, an unknown user
GraderInputs ==
    {u \in Ids(users) : users[u].role = "administrator"}
    \cup {StepModerator} \cup SubscriberInputs \cup {NoUser}

InitGrade ==
    /\ users = SeedUsers
    /\ courses = << CourseRow(2, TRUE) >>
    /\ lessons = << LessonRow(1, 1) >>
    /\ assignments = SubmitAssignments
    /\ enrollments = <<>>
    /\ subscriptions = <<>>
    /\ submissions = << SubmissionRow(1, 4, "answer", 0), SubmissionRow(1, 5, "answer", 0) >>
    /\ progress = <<>>
    /\ spent = {}
    /\ updates = 0
    /\ inflight = <<>>
    /\ lessonContent = <<>>
    /\ tests = <<>>
    /\ testQuestions = <<>>
    /\ now = 0
    /\ call = NoCall
    /\ run = NoRun

NextGrade ==
    \/ \E x \in Ids(submissions) \cup {NoSubmission}, g \in GradeInputs, u \in GraderInputs :
          gradeAssignment(x, g[1], g[2], u)
    \/ now < MaxClock /\ Tick

SpecGrade == InitGrade /\ [][NextGrade]_vars

(***************************************************************************)
(* SpecEnroll: a moderator creates courses, active or not, and every kind  *)
(* of user, known or not, is enrolled in every course, existing or not.    *)
(***************************************************************************)
\* an id that matches no course
NoCourse == Len(courses) + 1

InitEnroll ==
    /\ users = SeedUsers
    /\ courses = <<>>
    /\ lessons = <<>>
    /\ assignments = <<>>
    /\ enrollments = <<>>
    /\ subscriptions = <<>>
    /\ submissions = <<>>
    /\ progress = <<>>
    /\ spent = {}
    /\ updates = 0
    /\ inflight = <<>>
    /\ lessonContent = <<>>
    /\ tests = <<>>
    /\ testQuestions = <<>>
    /\ now = 0
    /\ call = NoCall
    /\ run = NoRun

NextEnroll ==
    \/ /\ Len(courses) < MaxEnrollCourses
       /\ \E a \in {NULL, Some(FALSE)} : createCourse(StepModerator, a)
    \/ \E c \in Ids(courses) \cup {NoCourse},
          u \in StudentIds \cup {StepModerator, NoUser} : enrollStudent(c, u)

SpecEnroll == InitEnroll /\ [][NextEnroll]_vars

(***************************************************************************)
(* SpecSubscribe: students, and an unknown user, subscribe to a course,    *)
(* and to one that does not exist, with date ranges in order, empty and    *)
(* reversed, while subscriptions are activated, cancelled and expire.      *)
(***************************************************************************)
\* start_date and end_date of a call: before, equal, after
DateInputs == {<<1, 2>>, <<2, 2>>, <<2, 1>>}

InitSubscribe ==
    /\ users = SeedUsers
    /\ courses = << CourseRow(2, TRUE) >>
    /\ lessons = <<>>
    /\ assignments = <<>>
    /\ enrollments = <<>>
    /\ subscriptions = <<>>
    /\ submissions = <<>>
    /\ progress = <<>>
    /\ spent = {}
    /\ updates = 0
    /\ inflight = <<>>
    /\ lessonContent = <<>>
    /\ tests = <<>>
    /\ testQuestions = <<>>
    /\ now = 0
    /\ call = NoCall
    /\ run = NoRun

NextSubscribe ==
    \/ /\ Len(subscriptions) < MaxSubscriptions
       /\ \E u \in StudentIds \cup {NoUser}, c \in Ids(courses) \cup {NoCourse},
             d \in DateInputs : createSubscription(u, c, d[1], d[2])
    \/ \E x \in Ids(subscriptions), st \in subscriptionStatusEnum :
          setSubscriptionStatus(x, st)

SpecSubscribe == InitSubscribe /\ [][NextSubscribe]_vars

(***************************************************************************)
(* SpecProgress: two students, and an unknown user, report time on a       *)
(* lesson, and on one that does not exist.                                 *)
(***************************************************************************)
NoLesson == Len(lessons) + 1
\* minutes reported: a correction, a visit, and the largest integer
TimeInputs == {-1, 2, IntegerMax}
\* the completed argument: left out, true, false
CompletedInputs == {NULL, Some(TRUE), Some(FALSE)}
AcceptedCalls == SumOver([r \in spent |-> r.calls], spent)

InitProgress ==
    /\ users = SeedUsers
    /\ courses = << CourseRow(2, TRUE) >>
    /\ lessons = << LessonRow(1, 1) >>
    /\ assignments = <<>>
    /\ enrollments = <<>>
    /\ subscriptions = <<>>
    /\ submissions = <<>>
    /\ progress = <<>>
    /\ spent = {}
    /\ updates = 0
    /\ inflight = <<>>
    /\ lessonContent = <<>>
    /\ tests = <<>>
    /\ testQuestions = <<>>
    /\ now = 0
    /\ call = NoCall
    /\ run = NoRun

NextProgress ==
    /\ AcceptedCalls < MaxProgressCalls
    /\ \E u \in StudentIds \cup {NoUser}, l \in Ids(lessons) \cup {NoLesson},
          t \in TimeInputs, c \in CompletedInputs : updateStudentProgress(u, l, t, c)

SpecProgress == InitProgress /\ [][NextProgress]_vars

(***************************************************************************)
(* SpecCompletion: two students report time on a lesson, marking it        *)
(* completed, not completed, or leaving the flag out, while the clock      *)
(* advances.                                                               *)
(***************************************************************************)
VisitInputs == {2}

NextCompletion ==
    \/ /\ AcceptedCalls < MaxProgressCalls
       /\ \E u \in StudentIds, l \in Ids(lessons), t \in VisitInputs,
             c \in CompletedInputs : updateStudentProgress(u, l, t, c)
    \/ now < MaxClock /\ Tick

SpecCompletion == InitProgress /\ [][NextCompletion]_vars

(***************************************************************************)
(* SpecUpdate: two courses, two lessons and two pieces of lesson content   *)
(* are edited, and rows that do not exist are named, while the clock       *)
(* advances.                                                               *)
(***************************************************************************)
NoContent == Len(lessonContent) + 1

\* the fields of an updateCourse input apart from id: a title alone, a
\* description set to null, both flags, nothing
CoursePatches ==
    { [title |-> Some("New title"), description |-> NULL, is_public |-> NULL,
       is_active |-> NULL],
      [title |-> NULL, description |-> Some(NULL), is_public |-> NULL, is_active |-> NULL],
      [title |-> NULL, description |-> NULL, is_public |-> Some(TRUE),
       is_active |-> Some(FALSE)],
      [title |-> NULL, description |-> NULL, is_public |-> NULL, is_active |-> NULL] }

LessonPatches ==
    { [title |-> Some("New title"), description |-> NULL, order_index |-> NULL],
      [title |-> NULL, description |-> Some(NULL), order_index |-> Some(0)],
      [title |-> NULL, description |-> NULL, order_index |-> NULL] }

ContentPatches ==
    { [title |-> Some("New title"), content_data |-> NULL, order_index |-> NULL],
      [title |-> NULL, content_data |-> Some("new data"), order_index |-> Some(3)],
      [title |-> NULL, content_data |-> NULL, order_index |-> NULL] }

\* the input: the id and the fields
WithId(id, patch) == [f \in DOMAIN patch \cup {"id"} |-> IF f = "id" THEN id ELSE patch[f]]

InitUpdate ==
    /\ users = SeedUsers
    /\ courses = << [CourseRow(2, TRUE) EXCEPT !.description = Some("About")],
                    CourseRow(3, TRUE) >>
    /\ lessons = << [LessonRow(1, 1) EXCEPT !.description = Some("Intro")],
                    LessonRow(1, 2) >>
    /\ lessonContent = << ContentRow(1, "text", 1), ContentRow(1, "video", 2) >>
    /\ tests = <<>>
    /\ testQuestions = <<>>
    /\ assignments = <<>>
    /\ enrollments = <<>>
    /\ subscriptions = <<>>
    /\ submissions = <<>>
    /\ progress = <<>>
    /\ spent = {}
    /\ updates = 0
    /\ inflight = <<>>
    /\ now = 0
    /\ call = NoCall
    /\ run = NoRun

NextUpdate ==
    \/ /\ updates < MaxUpdates
       /\ \E id \in Ids(courses) \cup {NoCourse}, patch \in CoursePatches :
             updateCourse(WithId(id, patch))
    \/ /\ updates < MaxUpdates
       /\ \E id \in Ids(lessons) \cup {NoLesson}, patch \in LessonPatches :
             updateLesson(WithId(id, patch))
    \/ /\ updates < MaxUpdates
       /\ \E id \in Ids(lessonContent) \cup {NoContent}, patch \in ContentPatches :
             updateLessonContent(WithId(id, patch))
    \/ now < MaxClock /\ Tick

SpecUpdate == InitUpdate /\ [][NextUpdate]_vars

(***************************************************************************)
(* SpecAuthor: a course with a lesson, a piece of content, a test and a    *)
(* question, and a course without lessons.  Lessons, content, tests,       *)
(* questions and assignments are added, under parents that exist and       *)
(* parents that do not, and the rows of a parent are listed.               *)
(***************************************************************************)
NoTest == Len(tests) + 1
\* order_index of a new row: before the seeded row, and equal to it
OrderInputs == {1, 2}

InitAuthor ==
    /\ users = SeedUsers
    /\ courses = << CourseRow(2, TRUE), CourseRow(2, TRUE) >>
    /\ lessons = << LessonRow(1, 2) >>
    /\ lessonContent = << ContentRow(1, "text", 2) >>
    /\ tests = << [lesson_content_id |-> 1, title |-> "Test"] >>
    /\ testQuestions = << QuestionRow(1, 2) >>
    /\ assignments = <<>>
    /\ enrollments = <<>>
    /\ subscriptions = <<>>
    /\ submissions = <<>>
    /\ progress = <<>>
    /\ spent = {}
    /\ updates = 0
    /\ inflight = <<>>
    /\ now = 0
    /\ call = NoCall
    /\ run = NoRun

Authored ==
    Len(lessons) + Len(lessonContent) + Len(tests) + Len(testQuestions) + Len(assignments)

Author ==
    \/ \E c \in Ids(courses) \cup {NoCourse}, i \in OrderInputs : createLesson(c, i)
    \/ \E l \in Ids(lessons) \cup {NoLesson}, i \in OrderInputs :
          createLessonContent(l, "video", i)
    \/ \E lc \in Ids(lessonContent) \cup {NoContent}, t \in TitleInputs : createTest(lc, t)
    \/ \E t \in Ids(tests) \cup {NoTest}, i \in OrderInputs : createTestQuestion(t, i)
    \/ \E l \in Ids(lessons) \cup {NoLesson}, t \in TitleInputs, d \in DueDateInputs :
          createAssignment(l, t, d)

List ==
    \/ \E c \in Ids(courses) \cup {NoCourse}, tie \in TieOrders : getLessonsByCourse(c, tie)
    \/ \E l \in Ids(lessons) \cup {NoLesson}, tie \in TieOrders : getLessonContent(l, tie)
    \/ \E t \in Ids(tests) \cup {NoTest}, tie \in TieOrders : getTestQuestions(t, tie)

NextAuthor ==
    \* InitAuthor holds four of these rows
    \/ Authored < 4 + MaxAuthored /\ Author
    \/ List

SpecAuthor == InitAuthor /\ [][NextAuthor]_vars

(***************************************************************************)
(* Calls that run at the same time.  A handler awaits each of its          *)
(* statements, and the server runs other calls meanwhile: a call in flight *)
(* executes one statement per step, each on the store as it is then.       *)
(***************************************************************************)
\* a call arrives and waits at its first statement
Starts(op, input, pc) ==
    /\ Len(inflight) < MaxConcurrent
    /\ inflight' = Append(inflight, [op |-> op, input |-> input, pc |-> pc, read |-> NULL])
    /\ UNCHANGED <<content, updates, progress, spent, run, users, courses, lessons,
                   enrollments, subscriptions, assignments, submissions, now, call>>

\* call k ends: it throws error, or returns the row id
Ends(k, error, id) ==
    /\ inflight' = [inflight EXCEPT ![k].pc = "done"]
    /\ call' = IF error # NoError
               THEN [op |-> inflight[k].op, input |-> inflight[k].input, error |-> error,
                     k |-> k]
               ELSE [op |-> inflight[k].op, input |-> inflight[k].input, id |-> id, k |-> k]

\* call k goes on to its next statement
GoesOn(k, pc, read) ==
    /\ inflight' = [inflight EXCEPT ![k].pc = pc, ![k].read = read]
    /\ UNCHANGED call

submitAssignmentStarts(assignment_id, student_id, submission_data) ==
    Starts("submitAssignment",
           [assignment_id |-> assignment_id, student_id |-> student_id,
            submission_data |-> submission_data], "assignment")

\* one statement of submitAssignment: the select of the assignment with the
\* due date check, the select of an existing submission, the insert
submitAssignmentStep(k) ==
    /\ k \in DOMAIN inflight
    /\ inflight[k].op = "submitAssignment"
    /\ LET input == inflight[k].input
           a == input.assignment_id
       IN  IF inflight[k].pc = "assignment"
           THEN /\ IF a \notin Ids(assignments)
                   THEN Ends(k, <<"Assignment not found">>, 0)
                   ELSE IF (IF assignments[a].due_date = NULL THEN FALSE
                            ELSE now > assignments[a].due_date[1])
                   THEN Ends(k, <<"Assignment submission is past due date">>, 0)
                   ELSE GoesOn(k, "existing", NULL)
                /\ UNCHANGED submissions
           ELSE IF inflight[k].pc = "existing"
           THEN /\ IF \E x \in Ids(submissions) :
                          /\ submissions[x].assignment_id = a
                          /\ submissions[x].student_id = input.student_id
                   THEN Ends(k, <<"Student has already submitted this assignment">>, 0)
                   ELSE GoesOn(k, "insert", NULL)
                /\ UNCHANGED submissions
           ELSE /\ inflight[k].pc = "insert"
                /\ IF input.student_id \notin Ids(users) \/ a \notin Ids(assignments)
                   THEN Ends(k, ForeignKeyViolation, 0) /\ UNCHANGED submissions
                   ELSE /\ submissions' = Append(submissions,
                                SubmissionRow(a, input.student_id, input.submission_data, now))
                        /\ Ends(k, NoError, Len(submissions) + 1)
    /\ UNCHANGED <<content, updates, progress, spent, run, users, courses, lessons,
                   enrollments, subscriptions, assignments, now>>

updateStudentProgressStarts(studentId, lessonId, timeSpent, completed) ==
    Starts("updateStudentProgress",
           [studentId |-> studentId, lessonId |-> lessonId, timeSpent |-> timeSpent,
            completed |-> completed], "read")

\* one statement of updateStudentProgress: the select of the existing
\* record, then the update of the record that was read or the insert
updateStudentProgressStep(k) ==
    /\ k \in DOMAIN inflight
    /\ inflight[k].op = "updateStudentProgress"
    /\ LET input == inflight[k].input
           existingProgress ==
               {x \in Ids(progress) :
                   /\ progress[x].student_id = input.studentId
                   /\ progress[x].lesson_id = input.lessonId}
       IN  IF inflight[k].pc = "read"
           THEN /\ IF existingProgress = {}
                   THEN GoesOn(k, "write", NULL)
                   ELSE \E x \in existingProgress :
                          GoesOn(k, "write", Some([id |-> x, row |-> progress[x]]))
                /\ UNCHANGED <<progress, spent>>
           ELSE /\ inflight[k].pc = "write"
                /\ LET currentProgress == inflight[k].read
                       row == IF currentProgress # NULL
                              THEN ProgressUpdate(currentProgress[1].row, input.timeSpent,
                                                  input.completed)
                              ELSE ProgressInsert(input.studentId, input.lessonId,
                                                  input.timeSpent, input.completed)
                   IN  IF row.time_spent < IntegerMin \/ row.time_spent > IntegerMax
                       THEN Ends(k, IntegerOutOfRange, 0) /\ UNCHANGED <<progress, spent>>
                       ELSE IF currentProgress # NULL
                       THEN /\ progress' = [progress EXCEPT ![currentProgress[1].id] = row]
                            /\ Ends(k, NoError, currentProgress[1].id)
                            /\ Accepted(input.studentId, input.lessonId, input.timeSpent)
                       ELSE IF \/ input.studentId \notin Ids(users)
                               \/ input.lessonId \notin Ids(lessons)
                       THEN Ends(k, ForeignKeyViolation, 0) /\ UNCHANGED <<progress, spent>>
                       ELSE /\ progress' = Append(progress, row)
                            /\ Ends(k, NoError, Len(progress) + 1)
                            /\ Accepted(input.studentId, input.lessonId, input.timeSpent)
    /\ UNCHANGED <<content, updates, run, users, courses, lessons, enrollments,
                   subscriptions, assignments, submissions, now>>

(***************************************************************************)
(* SpecSubmitRace: students submit to an open assignment and to one with   *)
(* a due date; their calls run at the same time while the clock advances.  *)
(***************************************************************************)
NextSubmitRace ==
    \/ \E a \in Ids(assignments), u \in StudentIds, d \in DataInputs :
          submitAssignmentStarts(a, u, d)
    \/ \E k \in DOMAIN inflight : submitAssignmentStep(k)
    \/ now < MaxClock /\ Tick

SpecSubmitRace == InitSubmit /\ [][NextSubmitRace]_vars

(***************************************************************************)
(* SpecProgressRace: students report time on a lesson; their calls run at  *)
(* the same time.                                                          *)
(***************************************************************************)
NextProgressRace ==
    \/ \E u \in StudentIds, l \in Ids(lessons), t \in TimeInputs, c \in CompletedInputs :
          updateStudentProgressStarts(u, l, t, c)
    \/ \E k \in DOMAIN inflight : updateStudentProgressStep(k)

SpecProgressRace == InitProgress /\ [][NextProgressRace]_vars

(***************************************************************************)
(* Vocabulary of the claims.                                               *)
(***************************************************************************)
\* the last call was a dashboard call
StatsCall == call.op = "getDashboardStats"
StatsCallAs(role) == StatsCall /\ call.input.userRole = role

\* the courses of the current store that userId owns
Owned(userId) == {c \in Ids(courses) : courses[c].owner_id = userId}

\* the course a submission belongs to, through its assignment and lesson
CourseOfSubmission(s) == lessons[assignments[submissions[s].assignment_id].lesson_id].course_id

ModeratorResult(m, tie) == getDashboardStats(Store, m, "moderator", tie)

(***************************************************************************)
(* C2: for a moderator who owns at least one course, total_courses is the  *)
(* number of owned courses, total_lessons the number of lessons of owned   *)
(* courses and active_subscriptions the number of subscriptions of owned   *)
(* courses whose status is 'active'; pending, expired and cancelled        *)
(* subscriptions are not counted.                                          *)
(***************************************************************************)
C2_ModeratorCounts ==
    \A m \in UserIdInputs, tie \in TieOrders :
        Owned(m) # {} =>
            LET r == ModeratorResult(m, tie)
                lessonsOf == [c \in Owned(m) |->
                    Cardinality({l \in Ids(lessons) : lessons[l].course_id = c})]
                activeOf == [c \in Owned(m) |->
                    Cardinality({s \in Ids(subscriptions) :
                        /\ subscriptions[s].course_id = c
                        /\ subscriptions[s].status \notin {"pending", "expired", "cancelled"}})]
            IN  /\ r.total_courses = Cardinality(Owned(m))
                /\ r.total_lessons = SumOver(lessonsOf, Owned(m))
                /\ r.active_subscriptions = SumOver(activeOf, Owned(m))

\* a moderator's answer counting an owned course, a lesson and an active
\* subscription while an owned course also has a subscription that is not active
C2_Witness ==
    /\ StatsCallAs("moderator")
    /\ call.output.total_courses >= 1
    /\ call.output.total_lessons >= 1
    /\ call.output.active_subscriptions >= 1
    /\ \E s \in Ids(subscriptions) :
          /\ subscriptions[s].course_id \in Owned(call.input.userId)
          /\ subscriptions[s].status # "active"

(***************************************************************************)
(* C3: a moderator's total_students is the number of distinct students     *)
(* with an enrollment row in an owned course; enrolling a student who is   *)
(* already enrolled in one owned course into a second owned course does    *)
(* not increase it.                                                        *)
(***************************************************************************)
WithEnrollment(db, c, u) ==
    [db EXCEPT !.enrollments = Append(@, EnrollmentRow(c, u, now))]

C3_DistinctStudents ==
    \A m \in UserIdInputs, tie \in TieOrders :
        Owned(m) # {} =>
            LET enrolled == {u \in StudentIds : \E e \in Ids(enrollments) :
                                /\ enrollments[e].student_id = u
                                /\ enrollments[e].course_id \in Owned(m)}
            IN  /\ ModeratorResult(m, tie).total_students = Cardinality(enrolled)
                /\ \A u \in enrolled, c \in Owned(m) :
                      getDashboardStats(WithEnrollment(Store, c, u), m, "moderator", tie).total_students
                          = ModeratorResult(m, tie).total_students

\* a moderator's answer that counts one student who has two enrollment rows,
\* in two courses of that moderator
C3_Witness ==
    /\ StatsCallAs("moderator")
    /\ call.output.total_students = 1
    /\ \E e1, e2 \in Ids(enrollments) :
          /\ enrollments[e1].student_id = enrollments[e2].student_id
          /\ enrollments[e1].course_id # enrollments[e2].course_id
          /\ {enrollments[e1].course_id, enrollments[e2].course_id}
                \subseteq Owned(call.input.userId)

(***************************************************************************)
(* C4: for role 'administrator' the counts are platform-wide: the users    *)
(* with role 'student', all courses, all lessons, and the subscriptions    *)
(* with status 'active', whoever owns the courses.                         *)
(***************************************************************************)
C4_AdministratorCounts ==
    StatsCallAs("administrator") =>
        LET r == call.output
            isStudent == [x \in Ids(users) |-> IF users[x].role = "student" THEN 1 ELSE 0]
            perOwner == [o \in Ids(users) |-> Cardinality(Owned(o))]
            perCourse == [c \in Ids(courses) |->
                Cardinality({l \in Ids(lessons) : lessons[l].course_id = c})]
            isActive == [x \in Ids(subscriptions) |->
                IF subscriptions[x].status = "active" THEN 1 ELSE 0]
        IN  /\ r.total_students = SumOver(isStudent, Ids(users))
            /\ r.total_courses = SumOver(perOwner, Ids(users))
            /\ r.total_lessons = SumOver(perCourse, Ids(courses))
            /\ r.active_subscriptions = SumOver(isActive, Ids(subscriptions))

\* an administrator's answer over courses of two owners, with an active
\* subscription counted and another subscription not counted, while fewer
\* students are enrolled than exist
C4_Witness ==
    /\ StatsCallAs("administrator")
    /\ \E c1, c2 \in Ids(courses) : courses[c1].owner_id # courses[c2].owner_id
    /\ call.output.total_courses = Len(courses)
    /\ call.output.active_subscriptions >= 1
    /\ call.output.active_subscriptions < Len(subscriptions)
    /\ call.output.total_students > Cardinality({enrollments[e].student_id : e \in Ids(enrollments)})

(***************************************************************************)
(* C5: for role 'student' the answer is all four counts 0 and no           *)
(* activity, whatever the store holds.                                     *)
(***************************************************************************)
C5_StudentEmpty ==
    \A u \in UserIdInputs, tie \in TieOrders :
        LET r == getDashboardStats(Store, u, "student", tie)
        IN  /\ r.total_students = 0
            /\ r.total_courses = 0
            /\ r.total_lessons = 0
            /\ r.active_subscriptions = 0
            /\ r.recent_activities = <<>>

\* a student with an enrollment, a subscription and a submission asks as
\* 'student' and gets the empty answer
C5_Witness ==
    /\ StatsCallAs("student")
    /\ call.output = EmptyStats
    /\ \E e \in Ids(enrollments) : enrollments[e].student_id = call.input.userId
    /\ \E s \in Ids(subscriptions) : subscriptions[s].user_id = call.input.userId
    /\ \E s \in Ids(submissions) : submissions[s].student_id = call.input.userId

(***************************************************************************)
(* C6: a moderator who owns no course gets all four counts 0 and no        *)
(* activity, and the call issues the owned-courses query and no other.     *)
(***************************************************************************)
C6_NoCoursesEmpty ==
    \A m \in UserIdInputs, tie \in TieOrders :
        Owned(m) = {} =>
            LET r == ModeratorResult(m, tie)
            IN  /\ r.total_students = 0
                /\ r.total_courses = 0
                /\ r.total_lessons = 0
                /\ r.active_subscriptions = 0
                /\ r.recent_activities = <<>>
                /\ DashboardQueries(Store, m, "moderator") = <<"courses">>

\* a stored moderator without courses asks while other owners' courses,
\* lessons and enrollments exist
C6_Witness ==
    /\ StatsCallAs("moderator")
    /\ call.input.userId \in ModeratorIds
    /\ Owned(call.input.userId) = {}
    /\ Len(courses) > 0 /\ Len(lessons) > 0 /\ Len(enrollments) > 0
    /\ call.output = EmptyStats
    /\ call.queries = <<"courses">>

(***************************************************************************)
(* C8: every entry of a moderator's recent_activities is a submission to   *)
(* an assignment of a lesson of a course the requester owns.               *)
(***************************************************************************)
C8_ModeratorFeedScope ==
    \A m \in UserIdInputs, tie \in TieOrders :
        LET feed == ModeratorResult(m, tie).recent_activities
        IN  \A i \in DOMAIN feed :
                /\ feed[i].id \in Ids(submissions)
                /\ courses[CourseOfSubmission(feed[i].id)].owner_id = m

\* a moderator's answer lists a submission while a submission to another
\* owner's course exists
C8_Witness ==
    /\ StatsCallAs("moderator")
    /\ call.output.recent_activities # <<>>
    /\ \E s \in Ids(submissions) :
          courses[CourseOfSubmission(s)].owner_id # call.input.userId

(***************************************************************************)
(* C1: moderator isolation.  Adding a course of another owner, or adding   *)
(* a lesson, enrollment, subscription, assignment or submission under a    *)
(* course of another owner, or changing such a row, leaves every answer    *)
(* to the moderator as it was.                                             *)
(***************************************************************************)
ForeignCourses(db, m) == {c \in Ids(db.courses) : db.courses[c].owner_id # m}
ForeignLessons(db, m) ==
    {l \in Ids(db.lessons) : db.lessons[l].course_id \in ForeignCourses(db, m)}
ForeignAssignments(db, m) ==
    {a \in Ids(db.assignments) : db.assignments[a].lesson_id \in ForeignLessons(db, m)}

\* the stores one foreign insert away from db
ForeignAdditions(db, m) ==
    {[db EXCEPT !.courses = Append(@, CourseRow(o, TRUE))] :
        o \in UserIdInputs \ {m}}
    \cup {[db EXCEPT !.lessons = Append(@, LessonRow(c, 1))] : c \in ForeignCourses(db, m)}
    \cup {WithEnrollment(db, c, u) : c \in ForeignCourses(db, m), u \in StudentIds}
    \cup {[db EXCEPT !.subscriptions =
              Append(@, SubscriptionRow(u, c, "active", now, now + 1))] :
            c \in ForeignCourses(db, m), u \in StudentIds}
    \cup {[db EXCEPT !.assignments =
              Append(@, [lesson_id |-> l, title |-> "Quiz", due_date |-> NULL])] :
            l \in ForeignLessons(db, m)}
    \cup {[db EXCEPT !.submissions =
              Append(@, SubmissionRow(a, u, "answer", now))] :
            a \in ForeignAssignments(db, m), u \in StudentIds}

\* the stores one change of a foreign row away from db
ForeignChanges(db, m) ==
    {[db EXCEPT !.courses[c].is_active = ~ @] : c \in ForeignCourses(db, m)}
    \cup {[db EXCEPT !.courses[c].owner_id = o] :
            c \in ForeignCourses(db, m), o \in UserIdInputs \ {m}}
    \cup {[db EXCEPT !.lessons[l].course_id = c] :
            l \in ForeignLessons(db, m), c \in ForeignCourses(db, m)}
    \cup {[db EXCEPT !.enrollments[e].student_id = u] :
            e \in {e \in Ids(db.enrollments) : db.enrollments[e].course_id \in ForeignCourses(db, m)},
            u \in StudentIds}
    \cup {[db EXCEPT !.subscriptions[x].status = st] :
            x \in {x \in Ids(db.subscriptions) :
                      db.subscriptions[x].course_id \in ForeignCourses(db, m)},
            st \in subscriptionStatusEnum}
    \cup {[db EXCEPT !.assignments[a].title = "Renamed"] : a \in ForeignAssignments(db, m)}
    \cup {[db EXCEPT !.submissions[x].status = "graded", !.submissions[x].submitted_at = @ + 1] :
            x \in {x \in Ids(db.submissions) :
                      db.submissions[x].assignment_id \in ForeignAssignments(db, m)}}

C1_ModeratorIsolation ==
    StatsCallAs("moderator") =>
        LET m == call.input.userId
        IN  /\ \E tie \in TieOrders : call.output = ModeratorResult(m, tie)
            /\ \A tie \in TieOrders :
                  LET answer == ModeratorResult(m, tie)
                  IN  \A db \in ForeignAdditions(Store, m) \cup ForeignChanges(Store, m) :
                          getDashboardStats(db, m, "moderator", tie) = answer

\* a moderator's answer with all four counts and the activity list not
\* empty, while another owner has a course with a lesson, an enrollment or
\* subscription, an assignment and a submission
C1_Witness ==
    /\ StatsCallAs("moderator")
    /\ call.output.total_students > 0
    /\ call.output.total_courses > 0
    /\ call.output.total_lessons > 0
    /\ call.output.recent_activities # <<>>
    /\ ForeignLessons(Store, call.input.userId) # {}
    /\ \E s \in Ids(submissions) :
          submissions[s].assignment_id \in ForeignAssignments(Store, call.input.userId)

(***************************************************************************)
(* C9: getDashboardStats is read-only: a call leaves every table as it was.*)
(***************************************************************************)
C9_ReadOnly ==
    [][(call'.op = "getDashboardStats" /\ call' # call) =>
          /\ users' = users
          /\ courses' = courses
          /\ lessons' = lessons
          /\ enrollments' = enrollments
          /\ subscriptions' = subscriptions
          /\ assignments' = assignments
          /\ submissions' = submissions]_vars

\* an answer that counted an active subscription, which is still active
C9_Witness ==
    /\ StatsCall
    /\ call.output.active_subscriptions > 0
    /\ \E s \in Ids(subscriptions) : subscriptions[s].status = "active"
    /\ Len(submissions) > 0

(***************************************************************************)
(* C10: the role argument is trusted and the stored role of userId never   *)
(* read: as 'administrator' every userId, stored or not, gets the same     *)
(* answer; as 'moderator' the answer depends on userId only through        *)
(* owner_id: a user who owns the same courses gets the same answer,        *)
(* whatever the stored role.                                               *)
(***************************************************************************)
\* db with the courses of owner u handed to v
Reowned(db, u, v) ==
    [db EXCEPT !.courses = [c \in Ids(db.courses) |->
        IF db.courses[c].owner_id = u THEN [db.courses[c] EXCEPT !.owner_id = v]
        ELSE db.courses[c]]]

C10_RoleArgumentTrusted ==
    StatsCall =>
        LET u == call.input.userId
        IN  /\ call.input.userRole = "administrator" =>
                  \A v \in UserIdInputs :
                      \E tie \in TieOrders :
                          call.output = getDashboardStats(Store, v, "administrator", tie)
            /\ call.input.userRole = "moderator" =>
                  \A v \in UserIdInputs :
                      Owned(v) = {} =>
                          \E tie \in TieOrders :
                              call.output = getDashboardStats(Reowned(Store, u, v), v,
                                                              "moderator", tie)

\* a user whose stored role is 'student' asks as 'moderator' and gets the
\* statistics of the course that user owns
C10_Witness ==
    /\ StatsCallAs("moderator")
    /\ call.input.userId \in StudentIds
    /\ call.output.total_courses > 0
    /\ call.output.total_lessons > 0

(***************************************************************************)
(* C7: for role 'administrator' and for role 'moderator' the activity list *)
(* is ordered by submitted_at descending and has at most 10 entries; it    *)
(* holds every submission in scope when there are at most 10, and          *)
(* otherwise 10 of them such that no submission left out is later than a   *)
(* listed one.                                                             *)
(***************************************************************************)
\* the submissions a call by userId as userRole ranges over
SubmissionsInScope(userId, userRole) ==
    IF userRole = "administrator" THEN Ids(submissions)
    ELSE IF userRole = "moderator"
         THEN {s \in Ids(submissions) : courses[CourseOfSubmission(s)].owner_id = userId}
         ELSE {}

C7_RecentActivitiesLatestTen ==
    StatsCall =>
        LET feed == call.output.recent_activities
            scope == SubmissionsInScope(call.input.userId, call.input.userRole)
            listed == {feed[i].id : i \in DOMAIN feed}
        IN  /\ \A i, j \in DOMAIN feed : i < j => feed[i].created_at >= feed[j].created_at
            /\ Len(feed) <= RecentLimit
            /\ Len(feed) = IF Cardinality(scope) > RecentLimit THEN RecentLimit
                           ELSE Cardinality(scope)
            /\ listed \subseteq scope
            /\ Cardinality(listed) = Len(feed)
            /\ \A i \in DOMAIN feed : feed[i].created_at = submissions[feed[i].id].submitted_at
            /\ \A s \in scope \ listed, i \in DOMAIN feed :
                  submissions[s].submitted_at <= feed[i].created_at

\* a moderator's list of 10 entries of differing times, while more than 10
\* submissions are in scope and one left out is older than a listed one
C7_Witness ==
    /\ StatsCallAs("moderator")
    /\ Len(call.output.recent_activities) = RecentLimit
    /\ call.output.recent_activities[1].created_at
          > call.output.recent_activities[RecentLimit].created_at
    /\ \E s \in SubmissionsInScope(call.input.userId, "moderator") :
          /\ \A i \in DOMAIN call.output.recent_activities :
                call.output.recent_activities[i].id # s
          /\ submissions[s].submitted_at < call.output.recent_activities[RecentLimit].created_at

(***************************************************************************)
(* C11: when a query of a getDashboardStats call fails, the call ends with *)
(* that error and returns no record; a record is returned only when every  *)
(* query of the call has answered.                                         *)
(***************************************************************************)
C11_QueryFailurePropagates ==
    (StatsCall /\ "failed" \in DOMAIN call) =>
        IF call.failed # 0
        THEN /\ Threw
             /\ "output" \notin DOMAIN call
        ELSE /\ ~ Threw
             /\ "output" \in DOMAIN call
             /\ Len(call.seen) = Len(call.queries)
             /\ call.queries =
                    DashboardQueries(IF call.seen = <<>> THEN Store ELSE call.seen[1],
                                     call.input.userId, call.input.userRole)

\* a call that failed at a later query, after earlier queries had answered
C11_Witness ==
    /\ StatsCall
    /\ Threw
    /\ call.failed > 1
    /\ run = NoRun

(***************************************************************************)
(* C12: a call takes no snapshot.  Each query reads the store as it is     *)
(* when the query runs, so that with writes between the queries the        *)
(* record returned can be the statistics of no store that existed during   *)
(* the call; without a write between its queries the record is the         *)
(* statistics of the one store it read.                                    *)
(***************************************************************************)
RECURSIVE Replay(_, _, _, _)
\* the answers of the first k queries of a call, query i run on seen[i]
Replay(input, seen, k, tie) ==
    IF k = 0 THEN <<>>
    ELSE LET before == Replay(input, seen, k - 1, tie)
         IN  Append(before, QueryAnswer(seen[k], input, before, tie))

\* the number of rows of the tables the handlers add to
Rows(db) ==
    Len(db.courses) + Len(db.lessons) + Len(db.enrollments) + Len(db.subscriptions)
        + Len(db.assignments) + Len(db.submissions)

C12_NoSnapshot ==
    (StatsCall /\ "seen" \in DOMAIN call /\ ~ Threw) =>
        /\ \E tie \in TieOrders :
              call.output
                  = AssembleStats(call.input, Replay(call.input, call.seen, Len(call.seen), tie))
        /\ (\A k \in DOMAIN call.seen : call.seen[k] = call.seen[1]) =>
              \E tie \in TieOrders :
                  call.output = IF call.seen = <<>> THEN EmptyStats
                                ELSE getDashboardStats(call.seen[1], call.input.userId,
                                                       call.input.userRole, tie)

\* a record returned by a call whose queries saw every store there was
\* between its first query and its return (one write at most between two
\* queries), and which is the statistics of none of them
C12_Witness ==
    /\ StatsCall
    /\ "seen" \in DOMAIN call
    /\ ~ Threw
    /\ call.seen # <<>>
    /\ \A k \in DOMAIN call.seen :
          k > 1 => Rows(call.seen[k]) <= Rows(call.seen[k - 1]) + 1
    /\ \A k \in DOMAIN call.seen, tie \in TieOrders :
          call.output # getDashboardStats(call.seen[k], call.input.userId,
                                          call.input.userRole, tie)

(***************************************************************************)
(* C13: submitAssignment prevents duplicate submissions.  There is at most *)
(* one submission row per (assignment_id, student_id); a call that passes  *)
(* the assignment and due date checks and whose pair has a row is rejected *)
(* with 'Student has already submitted this assignment' and adds no row,   *)
(* while such a call by a different student, who has no row yet, adds one. *)
(***************************************************************************)
\* the step is a submitAssignment call
SubmitStep == call'.op = "submitAssignment" /\ (call' # call \/ submissions' # submissions)

\* the assignment exists and is not past its due date
OpenAssignment(a) ==
    /\ a \in Ids(assignments)
    /\ IF assignments[a].due_date = NULL THEN TRUE ELSE ~ (now > assignments[a].due_date[1])

HasSubmitted(a, u) ==
    \E x \in Ids(submissions) :
        submissions[x].assignment_id = a /\ submissions[x].student_id = u

C14_SubmitChecksAndRow ==
    [][SubmitStep =>
        LET a == call'.input.assignment_id
        IN  /\ ~ OpenAssignment(a) => "error" \in DOMAIN call'
            /\ a \notin Ids(assignments) =>
                  call'.error = <<"Assignment not found">>
            /\ (a \in Ids(assignments) /\ ~ OpenAssignment(a)) =>
                  call'.error = <<"Assignment submission is past due date">>
            /\ IF "error" \in DOMAIN call'
               THEN submissions' = submissions
               ELSE /\ OpenAssignment(a)
                    /\ Len(submissions') = Len(submissions) + 1
                    /\ \A x \in Ids(submissions) : submissions'[x] = submissions[x]
                    /\ call'.id = Len(submissions')
                    /\ LET row == submissions'[Len(submissions')]
                       IN  /\ row.assignment_id = a
                           /\ row.student_id = call'.input.student_id
                           /\ row.submission_data = call'.input.submission_data
                           /\ row.status = "submitted"
                           /\ row.submitted_at = now
                           /\ row.score = NULL
                           /\ row.feedback = NULL
                           /\ row.graded_at = NULL
                           /\ row.graded_by = NULL]_vars

\* a submission was rejected as past due, after an earlier submission to
\* the same assignment was accepted in time
C14_Witness ==
    /\ call.op = "submitAssignment"
    /\ Threw
    /\ call.error = <<"Assignment submission is past due date">>
    /\ \E x \in Ids(submissions) :
          /\ submissions[x].assignment_id = call.input.assignment_id
          /\ submissions[x].status = "submitted"
          /\ submissions[x].score = NULL

(***************************************************************************)
(* C15: a successful gradeAssignment sets score and feedback of the        *)
(* submission with the given id to the input values, its status to         *)
(* 'graded', graded_by to the grader and graded_at to a time, not NULL; it *)
(* leaves assignment_id, student_id, submission_data and submitted_at of   *)
(* that row and every other row as they were.                              *)
(***************************************************************************)
\* the step is a gradeAssignment call
GradeStep == call'.op = "gradeAssignment" /\ (call' # call \/ submissions' # submissions)

C15_GradeSetsOneRow ==
    [][(GradeStep /\ "error" \notin DOMAIN call') =>
        LET x == call'.input.submission_id
        IN  /\ x \in Ids(submissions)
            /\ Ids(submissions') = Ids(submissions)
            /\ submissions'[x].score = Some(call'.input.score)
            /\ submissions'[x].feedback = call'.input.feedback
            /\ submissions'[x].status = "graded"
            /\ submissions'[x].graded_by = Some(call'.input.graded_by)
            /\ submissions'[x].graded_at # NULL
            /\ submissions'[x].assignment_id = submissions[x].assignment_id
            /\ submissions'[x].student_id = submissions[x].student_id
            /\ submissions'[x].submission_data = submissions[x].submission_data
            /\ submissions'[x].submitted_at = submissions[x].submitted_at
            /\ \A y \in Ids(submissions) \ {x} : submissions'[y] = submissions[y]]_vars

\* a submission was just graded with feedback, while another submission is
\* still as it was submitted
C15_Witness ==
    /\ call.op = "gradeAssignment"
    /\ ~ Threw
    /\ submissions[call.id].status = "graded"
    /\ submissions[call.id].score = Some(call.input.score)
    /\ submissions[call.id].feedback # NULL
    /\ \E y \in Ids(submissions) : submissions[y].status = "submitted"

(***************************************************************************)
(* C16: gradeAssignment is rejected, with the submissions as they were,    *)
(* when the submission does not exist, when the grader id matches no user  *)
(* or when the grader's stored role is 'student'; for an existing          *)
(* submission a grader whose stored role is 'moderator' or                 *)
(* 'administrator' is accepted.                                            *)
(***************************************************************************)
C16_GradeChecks ==
    [][GradeStep =>
        LET x == call'.input.submission_id
            g == call'.input.graded_by
            rejected == "error" \in DOMAIN call'
        IN  /\ x \notin Ids(submissions) => rejected
            /\ g \notin Ids(users) => rejected
            /\ (IF g \in Ids(users) THEN users[g].role = "student" ELSE FALSE) => rejected
            /\ rejected => submissions' = submissions
            /\ (/\ x \in Ids(submissions)
                /\ IF g \in Ids(users) THEN users[g].role \in {"moderator", "administrator"}
                   ELSE FALSE) => ~ rejected]_vars

\* a student was just refused as grader of a submission that an
\* administrator or moderator has graded
C16_Witness ==
    /\ call.op = "gradeAssignment"
    /\ Threw
    /\ call.error = <<"Students cannot grade assignments">>
    /\ call.input.submission_id \in Ids(submissions)
    /\ submissions[call.input.submission_id].status = "graded"

(***************************************************************************)
(* C17: enrollStudent adds an enrollment, with progress_percentage 0 and   *)
(* completed_at NULL, only if the student id is that of a user with role   *)
(* 'student', the course exists and is active, and the pair has no         *)
(* enrollment; every other call is rejected and leaves the enrollments as  *)
(* they were.  There is at most one enrollment per (course_id,             *)
(* student_id).                                                            *)
(***************************************************************************)
\* the step is an enrollStudent call
EnrollStep == call'.op = "enrollStudent" /\ (call' # call \/ enrollments' # enrollments)

CanEnroll(c, u) ==
    /\ u \in Ids(users)
    /\ IF u \in Ids(users) THEN users[u].role = "student" ELSE FALSE
    /\ c \in Ids(courses)
    /\ IF c \in Ids(courses) THEN courses[c].is_active ELSE FALSE
    /\ ~ \E e \in Ids(enrollments) :
            enrollments[e].course_id = c /\ enrollments[e].student_id = u

C17_EnrollChecks ==
    /\ [](\A e, f \in Ids(enrollments) :
            (/\ enrollments[e].course_id = enrollments[f].course_id
             /\ enrollments[e].student_id = enrollments[f].student_id) => e = f)
    /\ [][EnrollStep =>
            LET c == call'.input.courseId
                u == call'.input.studentId
            IN  IF CanEnroll(c, u)
                THEN /\ "error" \notin DOMAIN call'
                     /\ Len(enrollments') = Len(enrollments) + 1
                     /\ \A e \in Ids(enrollments) : enrollments'[e] = enrollments[e]
                     /\ LET row == enrollments'[Len(enrollments')]
                        IN  /\ row.course_id = c
                            /\ row.student_id = u
                            /\ row.progress_percentage = 0
                            /\ row.completed_at = NULL
                ELSE /\ "error" \in DOMAIN call'
                     /\ enrollments' = enrollments]_vars

\* a second enrollment of a pair was just rejected, while that student is
\* enrolled in two courses and another student in one of them
C17_Witness ==
    /\ call.op = "enrollStudent"
    /\ Threw
    /\ \E e, f, g \in Ids(enrollments) :
          /\ enrollments[e].course_id = call.input.courseId
          /\ enrollments[e].student_id = call.input.studentId
          /\ enrollments[f].student_id = call.input.studentId
          /\ enrollments[f].course_id # call.input.courseId
          /\ enrollments[g].course_id = call.input.courseId
          /\ enrollments[g].student_id # call.input.studentId

(***************************************************************************)
(* C18: createSubscription prevents duplicate live subscriptions.  For     *)
(* each (user_id, course_id) at most one subscription has status 'active'  *)
(* or 'pending'; a call that passes the user, course and date checks is    *)
(* rejected with 'User already has an active subscription for this course' *)
(* and adds no row when the pair has such a subscription, and is accepted  *)
(* when every subscription of the pair is 'cancelled' or 'expired'.        *)
(***************************************************************************)
\* the step is a createSubscription call
SubscribeStep ==
    call'.op = "createSubscription" /\ (call' # call \/ subscriptions' # subscriptions)

\* the subscriptions of the pair with status 'active' or 'pending'
LiveSubscriptions(u, c) ==
    {x \in Ids(subscriptions) :
        /\ subscriptions[x].user_id = u
        /\ subscriptions[x].course_id = c
        /\ subscriptions[x].status \in {"active", "pending"}}

\* the input passes the user, course and date checks
ValidSubscriptionInput(input) ==
    /\ input.user_id \in Ids(users)
    /\ input.course_id \in Ids(courses)
    /\ input.start_date < input.end_date

C19_SubscribeChecks ==
    [][SubscribeStep =>
        LET input == call'.input
            rejected == "error" \in DOMAIN call'
        IN  /\ input.user_id \notin Ids(users) => rejected
            /\ input.course_id \notin Ids(courses) => rejected
            /\ input.start_date >= input.end_date => rejected
            /\ rejected => subscriptions' = subscriptions
            /\ ~ rejected =>
                  /\ Len(subscriptions') = Len(subscriptions) + 1
                  /\ \A x \in Ids(subscriptions) : subscriptions'[x] = subscriptions[x]
                  /\ subscriptions'[Len(subscriptions')]
                        = [user_id |-> input.user_id, course_id |-> input.course_id,
                           status |-> "pending", start_date |-> input.start_date,
                           end_date |-> input.end_date]]_vars

\* a call with equal dates for a known user and course was just rejected,
\* while that user has no live subscription for the course
C19_Witness ==
    /\ call.op = "createSubscription"
    /\ Threw
    /\ call.input.user_id \in Ids(users)
    /\ call.input.course_id \in Ids(courses)
    /\ call.input.start_date = call.input.end_date
    /\ call.error = <<"Start date must be before end date">>
    /\ LiveSubscriptions(call.input.user_id, call.input.course_id) = {}
    /\ subscriptions # <<>>

(***************************************************************************)
(* C20: updateStudentProgress is an accumulating upsert.  After any        *)
(* sequence of calls for one (student_id, lesson_id), the pair has exactly *)
(* one progress row as soon as a call was accepted, none before, and the   *)
(* row's time_spent is the sum of the timeSpent arguments of the accepted  *)
(* calls; a call the database rejects (unknown student or lesson, sum      *)
(* outside the integer column) changes nothing.  The first accepted call   *)
(* creates the row, with completed false unless the argument is true.      *)
(***************************************************************************)
ProgressStep ==
    call'.op = "updateStudentProgress" /\ (call' # call \/ progress' # progress)

ProgressRows(studentId, lessonId) ==
    {x \in Ids(progress) :
        progress[x].student_id = studentId /\ progress[x].lesson_id = lessonId}

C20_AccumulatingUpsert ==
    /\ [](\A r \in spent :
            /\ r.calls >= 1
            /\ Cardinality(ProgressRows(r.student_id, r.lesson_id)) = 1
            /\ \A x \in ProgressRows(r.student_id, r.lesson_id) :
                  progress[x].time_spent = r.total)
    /\ [](\A x \in Ids(progress) :
            SpentOf(progress[x].student_id, progress[x].lesson_id).calls >= 1)
    /\ [][ProgressStep =>
            LET input == call'.input
            IN  IF "error" \in DOMAIN call'
                THEN progress' = progress
                ELSE ProgressRows(input.studentId, input.lessonId) = {} =>
                        /\ Len(progress') = Len(progress) + 1
                        /\ progress'[call'.id].time_spent = input.timeSpent
                        /\ progress'[call'.id].completed = (input.completed = Some(TRUE))]_vars

\* a further call of a pair was just accepted; the row holds the sum, which
\* is not the last argument, while another pair has a row of its own
C20_Witness ==
    /\ call.op = "updateStudentProgress"
    /\ ~ Threw
    /\ SpentOf(call.input.studentId, call.input.lessonId).calls >= 2
    /\ progress[call.id].time_spent = SpentOf(call.input.studentId, call.input.lessonId).total
    /\ progress[call.id].time_spent # call.input.timeSpent
    /\ Len(progress) >= 2

(***************************************************************************)
(* C21: updateStudentProgress preserves completion.  On a record that is   *)
(* already completed, a call that leaves the completed argument out keeps  *)
(* completed true and completion_date at its earlier value; an update sets *)
(* completion_date to the current time exactly when it moves the record    *)
(* from not completed to completed, and leaves it alone otherwise.         *)
(***************************************************************************)
C21_CompletionPreserved ==
    [][(ProgressStep /\ "error" \notin DOMAIN call'
            /\ ProgressRows(call'.input.studentId, call'.input.lessonId) # {}) =>
        LET current == progress[call'.id]
            row == progress'[call'.id]
        IN  /\ (current.completed /\ call'.input.completed = NULL) =>
                  /\ row.completed
                  /\ row.completion_date = current.completion_date
            /\ IF ~ current.completed /\ row.completed
               THEN row.completion_date = Some(now)
               ELSE row.completion_date = current.completion_date]_vars

\* a call that left completed out was just accepted on a record completed
\* at an earlier time, and the record still carries that time
C21_Witness ==
    /\ call.op = "updateStudentProgress"
    /\ ~ Threw
    /\ call.input.completed = NULL
    /\ SpentOf(call.input.studentId, call.input.lessonId).calls >= 2
    /\ progress[call.id].completed
    /\ progress[call.id].completion_date # NULL
    /\ progress[call.id].completion_date[1] < now

(***************************************************************************)
(* C27: in every state reached through updateStudentProgress calls, a      *)
(* progress record has a non-null completion_date if and only if completed *)
(* is true; a record set back to not completed has completion_date null.   *)
(***************************************************************************)
C27_CompletionDateIffCompleted ==
    \A x \in Ids(progress) : (progress[x].completion_date # NULL) <=> progress[x].completed

(***************************************************************************)
(* C22: updateCourse, updateLesson and updateLessonContent are partial     *)
(* updates.  Each writes, on the one row with the given id, the fields the *)
(* input gives (and updated_at for courses and lessons), keeps every field *)
(* left out and every other row, never changes a course's owner_id, a      *)
(* lesson's course_id or a content's lesson_id and content_type, and is    *)
(* rejected without change when no row has the id, with the handler's      *)
(* 'not found' error whenever the input gives the update statement a       *)
(* value to set.                                                           *)
(***************************************************************************)
\* the step is a call of the update handler op on the table before/after
UpdateStep(op, before, after) == call'.op = op /\ (call' # call \/ after # before)

\* after is before with the row id replaced by row
OneRowWritten(before, after, id, row) ==
    /\ Len(after) = Len(before)
    /\ \A x \in Ids(before) : after[x] = IF x = id THEN row ELSE before[x]

C23_ParentsExist ==
    /\ [](/\ \A x \in Ids(lessons) : lessons[x].course_id \in Ids(courses)
          /\ \A x \in Ids(assignments) : assignments[x].lesson_id \in Ids(lessons)
          /\ \A x \in Ids(tests) : tests[x].lesson_content_id \in Ids(lessonContent))
    /\ [][(call' # call /\ call'.op \in {"createLesson", "createAssignment", "createTest"}
              /\ "input" \in DOMAIN call') =>
            LET missing ==
                    IF call'.op = "createLesson"
                    THEN call'.input.course_id \notin Ids(courses)
                    ELSE IF call'.op = "createAssignment"
                    THEN call'.input.lesson_id \notin Ids(lessons)
                    ELSE call'.input.lesson_content_id \notin Ids(lessonContent)
            IN  /\ missing
                /\ "error" \in DOMAIN call'
                /\ UNCHANGED <<lessons, assignments, tests>>]_vars

\* a test under lesson content that does not exist was just rejected, after
\* a lesson and an assignment had been added under parents that exist
C23_Witness ==
    /\ call.op = "createTest"
    /\ Threw
    /\ call.input.lesson_content_id \notin Ids(lessonContent)
    /\ Len(lessons) > 1
    /\ assignments # <<>>

(***************************************************************************)
(* C24: getLessonsByCourse returns exactly the lessons whose course_id is  *)
(* the given course, each once, in ascending order_index whatever the      *)
(* order of insertion, and an empty list for a course without lessons or   *)
(* a course that does not exist; getLessonContent and getTestQuestions do  *)
(* the same for the content of a lesson and the questions of a test.       *)
(***************************************************************************)
\* output lists exactly the rows `scope` of table, each once and as stored,
\* in ascending order_index
ListsInOrder(output, table, scope) ==
    /\ {output[k].id : k \in DOMAIN output} = scope
    /\ Len(output) = Cardinality(scope)
    /\ \A k \in DOMAIN output : output[k].row = table[output[k].id]
    /\ \A j, k \in DOMAIN output :
          j < k => output[j].row.order_index <= output[k].row.order_index

C24_ListedInOrder ==
    /\ call.op = "getLessonsByCourse" =>
          ListsInOrder(call.output, lessons,
                       {x \in Ids(lessons) : lessons[x].course_id = call.input})
    /\ call.op = "getLessonContent" =>
          ListsInOrder(call.output, lessonContent,
                       {x \in Ids(lessonContent) : lessonContent[x].lesson_id = call.input})
    /\ call.op = "getTestQuestions" =>
          ListsInOrder(call.output, testQuestions,
                       {x \in Ids(testQuestions) : testQuestions[x].test_id = call.input})

\* the lessons of the first course were just listed: three of them, and a
\* lesson inserted later comes before one inserted earlier
C24_Witness ==
    /\ call.op = "getLessonsByCourse"
    /\ Len(call.output) = 3
    /\ call.output[1].id > call.output[2].id
    /\ call.output[1].row.order_index < call.output[2].row.order_index

(***************************************************************************)
(* C25: when two submitAssignment calls for the same (assignment_id,       *)
(* student_id) run at the same time, whatever the interleaving of their    *)
(* statements, at most one of them inserts a row: the pair never has two   *)
(* submissions.                                                            *)
(***************************************************************************)
C25_OneSubmissionUnderConcurrency ==
    \A x, y \in Ids(submissions) :
        (/\ submissions[x].assignment_id = submissions[y].assignment_id
         /\ submissions[x].student_id = submissions[y].student_id) => x = y

(***************************************************************************)
(* C26: when two updateStudentProgress calls for the same (student_id,     *)
(* lesson_id) run at the same time, whatever the interleaving of their     *)
(* statements, once both have returned the pair has exactly one progress   *)
(* row and its time_spent is the sum of the timeSpent arguments of the     *)
(* accepted calls: no update is lost and no row is duplicated.             *)
(***************************************************************************)
C26_NoLostUpdate ==
    (\A k \in DOMAIN inflight : inflight[k].pc = "done") =>
        \A r \in spent :
            /\ Cardinality(ProgressRows(r.student_id, r.lesson_id)) = 1
            /\ \A x \in ProgressRows(r.student_id, r.lesson_id) :
                  progress[x].time_spent = r.total

====
